---- MODULE Spec2Model ----
(***************************************************************************)
(* Model of the SEC filing ingestion pipeline: the relational store of     *)
(* PortfolioManager (login_mysql.py), its single-row insert operations,    *)
(* its filing-level insert operations, and the two downloaders            *)
(* (SEC-tracker.py, INSIDER-tracker.py) that drive them.                   *)
(*                                                                         *)
(* A table is the sequence of its rows in insertion order; the            *)
(* AUTO_INCREMENT id of a row is its index in the sequence.  The store is  *)
(* kept twice: db is what the single connection sees (autocommit=False),   *)
(* committed is what is durable.  commit() copies db to committed,         *)
(* rollback() and an interruption of the process copy committed to db.     *)
(***************************************************************************)
EXTENDS Integers, Sequences, FiniteSets, TLC

\* ------------------------------------------------------------------ bounds
\* longest list of raw child rows of one filing document
MaxRows == 2
\* most filing-level insert operations or downloader runs started in one behaviour
MaxOps == 2
\* most single-row insert operations called directly in one behaviour
MaxCalls == 3
\* most failures (database errors, failed requests, interruptions) in one behaviour
MaxFaults == 1

\* ----------------------------------------------------------- value domains
\* Python None / SQL NULL of a number, an id or a date; ids and dates are >= 1,
\* so `not x` is `x = None`
None == 0
\* Python None / SQL NULL of a text value
NoneS == "NULL"

CIKs == {"1001", "1002"}
Names == {"a", "b"}
CUSIPs == {"037833100", "594918104"}
Accessions == {"0001-24-000001", "0001-24-000002"}
Dates == {1, 2}

\* ------------------------------------------------------------------ helpers
Range(s) == {s[i] : i \in 1..Len(s)}

\* the indices of the rows of table t whose fields equal those of `where`
Ids(t, where) == {i \in 1..Len(t) : \A f \in DOMAIN where : t[i][f] = where[f]}

\* cursor.fetchone() of "SELECT id ... WHERE key": the first matching id, or None
FetchOne(t, where) ==
    IF Ids(t, where) = {} THEN None
    ELSE CHOOSE i \in Ids(t, where) : \A j \in Ids(t, where) : i <= j

\* ------------------------------------------------------------------- store
EmptyDb ==
    [funds |-> << >>, securities |-> << >>, filings |-> << >>, positions |-> << >>,
     insiders |-> << >>, companies |-> << >>, insider_filings |-> << >>,
     insider_transactions |-> << >>, insider_holdings |-> << >>]

\* variant: the insert operations do not commit
Commit_none(st) == st

\* connection.commit(): what the connection wrote becomes durable
Commit(st) == [st EXCEPT !.committed = st.db]

\* variant: the except branch does not roll back
Rollback_none(st) == st

\* variant: the except branch clears the tables instead of rolling back
Rollback_clear(st) == [db |-> EmptyDb, committed |-> EmptyDb]

\* connection.rollback(): what the connection wrote since the last commit is lost
Rollback(st) == [st EXCEPT !.db = st.committed]

\* the value of a call: the store after it and what it returns
Ret(st, r) == [db |-> st.db, committed |-> st.committed, ret |-> r]

\* cursor.execute of an INSERT: the row is appended, its id is lastrowid
ExecInsert(st, table, row) == [st EXCEPT !.db[table] = Append(@, row)]

\* -------------------------------------------------- schema (CREATE TABLE ...)
\* UNIQUE keys of the 13F tables
UniqueFund(d, cik) == \A i \in 1..Len(d.funds) : d.funds[i].cik # cik
UniqueSecurity(d, cusip) == \A i \in 1..Len(d.securities) : d.securities[i].cusip # cusip
UniqueFiling(d, acc) == \A i \in 1..Len(d.filings) : d.filings[i].accession_number # acc
UniquePosition(d, fid, sid) ==
    \A i \in 1..Len(d.positions) :
        ~(d.positions[i].filing_id = fid /\ d.positions[i].security_id = sid)

\* variant: the schema declares no foreign key
ForeignKey_none(t, id) == TRUE

\* FOREIGN KEY ... REFERENCES t(id): the referenced id is a row of t
ForeignKey(t, id) == id \in 1..Len(t)

\* UNIQUE keys of the insider tables
UniqueInsider(d, cik) == \A i \in 1..Len(d.insiders) : d.insiders[i].cik # cik
UniqueCompany(d, cik) == \A i \in 1..Len(d.companies) : d.companies[i].cik # cik
UniqueInsiderFiling(d, acc) ==
    \A i \in 1..Len(d.insider_filings) : d.insider_filings[i].accession_number # acc

\* ------------------------------------------------ single-row insert operations
\* conn: self.connection is not None.  err: which statement of the call the
\* database makes fail ("none", "select", "write"); mysql raises Error there.
\* A "write" error is raised at the latest point, by commit() after the INSERT
\* or UPDATE was executed; a statement that violates a constraint of the schema
\* raises by itself.

\* variant: no SELECT before the INSERT
insert_fund_noselect(st, conn, cik, name, err) ==
    IF ~conn THEN Ret(st, None)
    ELSE IF err # "none" \/ ~UniqueFund(st.db, cik) \/ name = NoneS
         THEN Ret(Rollback(st), None)
    ELSE LET st1 == ExecInsert(st, "funds", [cik |-> cik, name |-> name])
         IN  Ret(Commit(st1), Len(st1.db.funds))

insert_fund(st, conn, cik, name, err) ==
    IF ~conn THEN Ret(st, None)
    ELSE IF err = "select" THEN Ret(Rollback(st), None)
    ELSE LET result == FetchOne(st.db.funds, [cik |-> cik]) IN
         IF result # None THEN Ret(st, result)
         ELSE IF ~UniqueFund(st.db, cik) \/ name = NoneS
              THEN Ret(Rollback(st), None)
         ELSE LET st1 == ExecInsert(st, "funds", [cik |-> cik, name |-> name])
              IN  IF err = "write" THEN Ret(Rollback(st1), None)
                  ELSE Ret(Commit(st1), Len(st1.db.funds))

\* variant: the name of a stored security is overwritten by the new one
insert_security_upsert(st, conn, cusip, name, err) ==
    IF ~conn THEN Ret(st, None)
    ELSE IF err = "select" THEN Ret(Rollback(st), None)
    ELSE LET result == FetchOne(st.db.securities, [cusip |-> cusip]) IN
         IF result # None
         THEN Ret(Commit([st EXCEPT !.db.securities[result].name = name]), result)
         ELSE IF err = "write" \/ name = NoneS THEN Ret(Rollback(st), None)
         ELSE LET st1 == ExecInsert(st, "securities", [cusip |-> cusip, name |-> name])
              IN  Ret(Commit(st1), Len(st1.db.securities))

insert_security(st, conn, cusip, name, err) ==
    IF ~conn THEN Ret(st, None)
    ELSE IF err = "select" THEN Ret(Rollback(st), None)
    ELSE LET result == FetchOne(st.db.securities, [cusip |-> cusip]) IN
         IF result # None THEN Ret(st, result)
         ELSE IF ~UniqueSecurity(st.db, cusip) \/ name = NoneS
              THEN Ret(Rollback(st), None)
         ELSE LET st1 == ExecInsert(st, "securities", [cusip |-> cusip, name |-> name])
              IN  IF err = "write" THEN Ret(Rollback(st1), None)
                  ELSE Ret(Commit(st1), Len(st1.db.securities))

insert_filing(st, conn, fund_id, accession_number, report_date, filed_date, err) ==
    IF ~conn THEN Ret(st, None)
    ELSE IF err = "select" THEN Ret(Rollback(st), None)
    ELSE LET result == FetchOne(st.db.filings,
                                [accession_number |-> accession_number]) IN
         IF result # None THEN Ret(st, result)
         ELSE IF \/ ~UniqueFiling(st.db, accession_number)
                 \/ ~ForeignKey(st.db.funds, fund_id)
                 \/ report_date = None \/ filed_date = None
              THEN Ret(Rollback(st), None)
         ELSE LET st1 == ExecInsert(st, "filings",
                            [accession_number |-> accession_number, fund_id |-> fund_id,
                             report_date |-> report_date, filed_date |-> filed_date])
              IN  IF err = "write" THEN Ret(Rollback(st1), None)
                  ELSE Ret(Commit(st1), Len(st1.db.filings))

\* variant: the UPDATE overwrites value and shares instead of adding to them
ExecUpdatePosition_overwrite(st, fid, sid, v, s) ==
    [st EXCEPT !.db.positions =
        [i \in 1..Len(@) |->
            IF @[i].filing_id = fid /\ @[i].security_id = sid
            THEN [@[i] EXCEPT !.value = v, !.shares = s]
            ELSE @[i]]]

\* UPDATE positions SET value = value + v, shares = shares + s WHERE filing, security
ExecUpdatePosition(st, fid, sid, v, s) ==
    [st EXCEPT !.db.positions =
        [i \in 1..Len(@) |->
            IF @[i].filing_id = fid /\ @[i].security_id = sid
            THEN [@[i] EXCEPT !.value = @ + v, !.shares = @ + s]
            ELSE @[i]]]

insert_position(st, conn, filing_id, security_id, value, shares, share_type, investment_discretion, voting_authority, err) ==
    IF ~conn THEN Ret(st, None)
    ELSE IF err = "select" THEN Ret(Rollback(st), None)
    ELSE LET existing_position ==
                 FetchOne(st.db.positions,
                          [filing_id |-> filing_id, security_id |-> security_id])
         IN
         IF existing_position # None
         THEN LET st1 == ExecUpdatePosition(st, filing_id, security_id, value, shares)
              IN  IF err = "write" THEN Ret(Rollback(st1), None)
                  ELSE Ret(Commit(st1), existing_position)
         ELSE IF \/ ~UniquePosition(st.db, filing_id, security_id)
                 \/ ~ForeignKey(st.db.filings, filing_id)
                 \/ ~ForeignKey(st.db.securities, security_id)
              THEN Ret(Rollback(st), None)
         ELSE LET st1 == ExecInsert(st, "positions",
                            [filing_id |-> filing_id, security_id |-> security_id,
                             value |-> value, shares |-> shares,
                             share_type |-> share_type,
                             investment_discretion |-> investment_discretion,
                             voting_authority |-> voting_authority])
              IN  IF err = "write" THEN Ret(Rollback(st1), None)
                  ELSE Ret(Commit(st1), Len(st1.db.positions))

\* variant: the existence check never finds the filing
filing_exists_absent(st, conn, accession_number, err) == FALSE

\* variant: a filing without a position row counts as absent
filing_exists_complete(st, conn, accession_number, err) ==
    LET id == FetchOne(st.db.filings, [accession_number |-> accession_number]) IN
    conn /\ err # "select" /\ id # None /\ Ids(st.db.positions, [filing_id |-> id]) # {}

\* filing_exists: False without a connection and on any error of the query
filing_exists(st, conn, accession_number, err) ==
    IF ~conn THEN FALSE
    ELSE IF err = "select" THEN FALSE
    ELSE FetchOne(st.db.filings, [accession_number |-> accession_number]) # None

\* the flags and title that insert_insider takes from relationship_info
RelFlag(relationship_info, field) ==
    IF field \in DOMAIN relationship_info THEN relationship_info[field] ELSE FALSE

insert_insider(st, conn, cik, name, title, relationship_info, err) ==
    IF ~conn THEN Ret(st, None)
    ELSE IF err = "select" THEN Ret(Rollback(st), None)
    ELSE LET result == FetchOne(st.db.insiders, [cik |-> cik]) IN
         IF result # None THEN Ret(st, result)
         ELSE IF ~UniqueInsider(st.db, cik) \/ name = NoneS
              THEN Ret(Rollback(st), None)
         ELSE LET title1 == IF title \in {NoneS, ""} /\ "title" \in DOMAIN relationship_info
                            THEN relationship_info["title"] ELSE title
                  st1 == ExecInsert(st, "insiders",
                            [cik |-> cik, name |-> name, title |-> title1,
                             is_director |-> RelFlag(relationship_info, "isDirector"),
                             is_officer |-> RelFlag(relationship_info, "isOfficer"),
                             is_ten_percent_owner |->
                                 RelFlag(relationship_info, "isTenPercentOwner"),
                             is_other |-> RelFlag(relationship_info, "isOther")])
              IN  IF err = "write" THEN Ret(Rollback(st1), None)
                  ELSE Ret(Commit(st1), Len(st1.db.insiders))

insert_company(st, conn, cik, name, ticker, exchange, sector, err) ==
    IF ~conn THEN Ret(st, None)
    ELSE IF err = "select" THEN Ret(Rollback(st), None)
    ELSE LET result == FetchOne(st.db.companies, [cik |-> cik]) IN
         IF result # None THEN Ret(st, result)
         ELSE IF ~UniqueCompany(st.db, cik) \/ name = NoneS
              THEN Ret(Rollback(st), None)
         ELSE LET st1 == ExecInsert(st, "companies",
                            [cik |-> cik, name |-> name, ticker |-> ticker,
                             exchange |-> exchange, sector |-> sector])
              IN  IF err = "write" THEN Ret(Rollback(st1), None)
                  ELSE Ret(Commit(st1), Len(st1.db.companies))

insert_insider_filing(st, conn, accession_number, insider_id, company_id, filed_date, err) ==
    IF ~conn THEN Ret(st, None)
    ELSE IF err = "select" THEN Ret(Rollback(st), None)
    ELSE LET result == FetchOne(st.db.insider_filings,
                                [accession_number |-> accession_number]) IN
         IF result # None THEN Ret(st, result)
         ELSE IF \/ ~UniqueInsiderFiling(st.db, accession_number)
                 \/ ~ForeignKey(st.db.insiders, insider_id)
                 \/ ~ForeignKey(st.db.companies, company_id)
                 \/ filed_date = None
              THEN Ret(Rollback(st), None)
         ELSE LET st1 == ExecInsert(st, "insider_filings",
                            [accession_number |-> accession_number,
                             insider_id |-> insider_id, company_id |-> company_id,
                             filed_date |-> filed_date])
              IN  IF err = "write" THEN Ret(Rollback(st1), None)
                  ELSE Ret(Commit(st1), Len(st1.db.insider_filings))

\* dict.get(key, default)
Get(dict, key, default) == IF key \in DOMAIN dict THEN dict[key] ELSE default

\* there is no SELECT in the two child inserts: every error is an error of the INSERT
\* variant: a transaction equal to a stored one of the filing is not inserted again
insert_insider_transaction_dedup(st, conn, filing_id, transaction_data, err) ==
    LET same == Ids(st.db.insider_transactions,
                    [filing_id |-> filing_id,
                     security_title |-> Get(transaction_data, "security_title", ""),
                     transaction_date |-> Get(transaction_data, "transaction_date", None),
                     transaction_code |-> Get(transaction_data, "transaction_code", ""),
                     transaction_shares |-> Get(transaction_data, "transaction_shares", 0)])
    IN
    IF ~conn THEN Ret(st, None)
    ELSE IF err # "none" \/ ~ForeignKey(st.db.insider_filings, filing_id)
         THEN Ret(Rollback(st), None)
    ELSE IF same # {} THEN Ret(st, CHOOSE i \in same : TRUE)
    ELSE LET st1 == ExecInsert(st, "insider_transactions",
                       [filing_id |-> filing_id,
                        security_title |-> Get(transaction_data, "security_title", ""),
                        transaction_date |-> Get(transaction_data, "transaction_date", None),
                        transaction_code |-> Get(transaction_data, "transaction_code", ""),
                        transaction_shares |-> Get(transaction_data, "transaction_shares", 0),
                        transaction_price |-> Get(transaction_data, "transaction_price", 0),
                        shares_owned_after |-> Get(transaction_data, "shares_owned_after", 0),
                        direct_indirect |-> Get(transaction_data, "direct_indirect", "D"),
                        is_derivative |-> Get(transaction_data, "is_derivative", FALSE)])
         IN  Ret(Commit(st1), Len(st1.db.insider_transactions))

insert_insider_transaction(st, conn, filing_id, transaction_data, err) ==
    IF ~conn THEN Ret(st, None)
    ELSE IF ~ForeignKey(st.db.insider_filings, filing_id)
         THEN Ret(Rollback(st), None)
    ELSE LET st1 == ExecInsert(st, "insider_transactions",
                       [filing_id |-> filing_id,
                        security_title |-> Get(transaction_data, "security_title", ""),
                        transaction_date |-> Get(transaction_data, "transaction_date", None),
                        transaction_code |-> Get(transaction_data, "transaction_code", ""),
                        transaction_shares |-> Get(transaction_data, "transaction_shares", 0),
                        transaction_price |-> Get(transaction_data, "transaction_price", 0),
                        shares_owned_after |-> Get(transaction_data, "shares_owned_after", 0),
                        direct_indirect |-> Get(transaction_data, "direct_indirect", "D"),
                        is_derivative |-> Get(transaction_data, "is_derivative", FALSE)])
         IN  IF err # "none" THEN Ret(Rollback(st1), None)
             ELSE Ret(Commit(st1), Len(st1.db.insider_transactions))

insert_insider_holding(st, conn, filing_id, holding_data, err) ==
    IF ~conn THEN Ret(st, None)
    ELSE IF ~ForeignKey(st.db.insider_filings, filing_id)
         THEN Ret(Rollback(st), None)
    ELSE LET st1 == ExecInsert(st, "insider_holdings",
                       [filing_id |-> filing_id,
                        security_title |-> Get(holding_data, "security_title", ""),
                        shares_owned |-> Get(holding_data, "shares_owned", 0),
                        direct_indirect |-> Get(holding_data, "direct_indirect", "D"),
                        is_derivative |-> Get(holding_data, "is_derivative", FALSE)])
         IN  IF err # "none" THEN Ret(Rollback(st1), None)
             ELSE Ret(Commit(st1), Len(st1.db.insider_holdings))

\* variant: the existence check never finds the insider filing
insider_filing_exists_absent(st, conn, accession_number, err) == FALSE

insider_filing_exists(st, conn, accession_number, err) ==
    IF ~conn THEN FALSE
    ELSE IF err = "select" THEN FALSE
    ELSE FetchOne(st.db.insider_filings,
                  [accession_number |-> accession_number]) # None

\* ------------------------------------------------------------ input documents
\* raw 13F position rows as parse_13f_xml returns them; RowA and RowB report the
\* same CUSIP (a position split by voting authority)
RowA ==
    [security |-> [cusip |-> "037833100", name |-> "APPLE - COM"],
     position |-> [value |-> 1000, shares |-> 10, share_type |-> "SH",
                   investment_discretion |-> "SOLE", voting_authority |-> "SOLE"]]
RowB ==
    [security |-> [cusip |-> "037833100", name |-> "APPLE - CL B"],
     position |-> [value |-> 500, shares |-> 5, share_type |-> "PRN",
                   investment_discretion |-> "DFND", voting_authority |-> "NONE"]]
RowC ==
    [security |-> [cusip |-> "594918104", name |-> "MICROSOFT - COM"],
     position |-> [value |-> 7, shares |-> 3, share_type |-> "SH",
                   investment_discretion |-> "SOLE", voting_authority |-> "SOLE"]]
RawRows == {RowA, RowB, RowC}

\* every list of at most MaxRows raw rows in which no row occurs twice
RowSeqs ==
    {s \in UNION {[1..n -> RawRows] : n \in 0..MaxRows} :
        \A i, j \in 1..Len(s) : s[i] = s[j] => i = j}

\* the empty dict {}
EmptyDict == [k \in {} |-> None]

\* ------------------------------------------- aggregation by CUSIP (in memory)
\* the CUSIPs of rows in order of first occurrence: the key order of the dict
RECURSIVE CusipOrder(_)
CusipOrder(rows) ==
    IF rows = << >> THEN << >>
    ELSE LET init == CusipOrder(SubSeq(rows, 1, Len(rows) - 1))
             c == rows[Len(rows)].security.cusip
         IN  IF c \in Range(init) THEN init ELSE Append(init, c)

\* the sum of field f of the rows of CUSIP c
RECURSIVE SumField(_, _, _)
SumField(rows, c, f) ==
    IF rows = << >> THEN 0
    ELSE (IF Head(rows).security.cusip = c THEN Head(rows).position[f] ELSE 0)
         + SumField(Tail(rows), c, f)

\* variant: the last row of CUSIP c
FirstRow_last(rows, c) ==
    rows[CHOOSE i \in 1..Len(rows) :
            /\ rows[i].security.cusip = c
            /\ \A j \in (i + 1)..Len(rows) : rows[j].security.cusip # c]

\* the first row of CUSIP c
FirstRow(rows, c) ==
    rows[CHOOSE i \in 1..Len(rows) :
            /\ rows[i].security.cusip = c
            /\ \A j \in 1..(i - 1) : rows[j].security.cusip # c]

\* aggregated_positions: one entry per CUSIP, value and shares summed, every
\* other field taken from the first row of the CUSIP
Aggregate(rows) ==
    LET order == CusipOrder(rows) IN
    [k \in 1..Len(order) |->
        LET first == FirstRow(rows, order[k]) IN
        [security |-> first.security,
         position |-> [value |-> SumField(rows, order[k], "value"),
                       shares |-> SumField(rows, order[k], "shares"),
                       share_type |-> first.position.share_type,
                       investment_discretion |-> first.position.investment_discretion,
                       voting_authority |-> first.position.voting_authority]]]

\* -------------------------------------------------------------------- state
VARIABLES
    script,      \* the program that runs: "SEC-tracker" or "INSIDER-tracker"
    driver,      \* who calls the PortfolioManager: the "downloader", or a direct caller
                 \* of its filing-level ("filing_api") or single-row ("row_api") inserts
    connection,  \* self.connection is not None
    world,       \* the remote feed and documents (never changes)
    db,          \* the store as the connection sees it
    committed,   \* the durable store
    op,          \* the filing-level insert operation in progress
    run,         \* the downloader run in progress
    ret,         \* the single-row insert call of the last step and what it returned
    nops,        \* operations started so far by the driver
    prev,        \* history: the downloader run that returned last, if nothing followed it
    faults,      \* failures and interruptions that happened so far
    batch        \* the download_multiple_... call in progress

vars == <<script, driver, connection, world, db, committed, op, run, ret, nops, prev, faults,
         batch>>

st == [db |-> db, committed |-> committed]

Errs == {"none", "select", "write"}

NoOp == [kind |-> "none"]
NoRun == [kind |-> "none"]
NoRet == [fn |-> "none"]
NoPrev == [kind |-> "none"]
NoBatch == [kind |-> "none"]

\* a step in which something fails (failed) or nothing does
Fault(failed) ==
    /\ failed => faults < MaxFaults
    /\ faults' = IF failed THEN faults + 1 ELSE faults

\* the effect of a single-row insert call on the store, recorded in ret
Apply(r, fn, args, err) ==
    /\ db' = r.db
    /\ committed' = r.committed
    /\ ret' = [fn |-> fn, args |-> args, val |-> r.ret, err |-> err]
    /\ Fault(err # "none")

\* ---------------------------------------- filing-level insert operations (13F)
\* the frame of insert_complete_portfolio_data ("separate") and of
\* insert_complete_portfolio_data_aggregated ("aggregated").  The fields from
\* `fresh` on are history: they record what happened, the code does not read them.
NewOp13F(kind, data, caller) ==
    [kind |-> kind, caller |-> caller, data |-> data, stage |-> "fund", i |-> 1,
     fund_id |-> None, filing_id |-> None, security_id |-> None,
     successful_positions |-> 0, result |-> FALSE,
     fresh |-> UniqueFiling(db, data.filing.accession_number),
     before |-> committed, parent_failed |-> FALSE,
     attempted |-> {}, stored |-> {}]

\* the child rows the operation loops over
Items(o) ==
    IF o.kind = "aggregated" THEN Aggregate(o.data.positions) ELSE o.data.positions

\* the value returned once the loop over the child rows is over
LoopResult(o, successful) ==
    IF o.kind = "separate" THEN successful > 0 ELSE TRUE

\* variant: the loop stops at the first child row that fails
NextRow_stop(o) ==
    IF o.i < Len(Items(o)) /\ o.i \in o.stored
    THEN [o EXCEPT !.i = @ + 1, !.stage = "security", !.security_id = None]
    ELSE [o EXCEPT !.stage = "return", !.security_id = None,
                   !.result = LoopResult(o, o.successful_positions)]

\* the frame after child row i is done: the next row, or the return
NextRow(o) ==
    IF o.i < Len(Items(o))
    THEN [o EXCEPT !.i = @ + 1, !.stage = "security", !.security_id = None]
    ELSE [o EXCEPT !.stage = "return", !.security_id = None,
                   !.result = LoopResult(o, o.successful_positions)]

Is13F(o) == o.kind \in {"separate", "aggregated"}

\* fund_id = self.insert_fund(...); if not fund_id: return False
OpInsertFund(err) ==
    /\ Is13F(op) /\ op.stage = "fund"
    /\ LET r == insert_fund(st, connection, op.data.fund.cik, op.data.fund.name, err) IN
       /\ Apply(r, "insert_fund", <<op.data.fund.cik, op.data.fund.name>>, err)
       /\ op' = IF r.ret = None
                THEN [op EXCEPT !.stage = "return", !.result = FALSE, !.parent_failed = TRUE]
                ELSE [op EXCEPT !.stage = "filing", !.fund_id = r.ret]
    /\ UNCHANGED <<script, driver, batch, connection, world, run, nops, prev>>

\* filing_id = self.insert_filing(...); if not filing_id: return False
OpInsertFiling(err) ==
    /\ Is13F(op) /\ op.stage = "filing"
    /\ LET f == op.data.filing
           r == insert_filing(st, connection, op.fund_id, f.accession_number,
                              f.report_date, f.filed_date, err)
       IN
       /\ Apply(r, "insert_filing",
                <<op.fund_id, f.accession_number, f.report_date, f.filed_date>>, err)
       /\ op' = IF r.ret = None
                THEN [op EXCEPT !.stage = "return", !.result = FALSE, !.parent_failed = TRUE]
                ELSE IF Len(Items(op)) = 0
                THEN [op EXCEPT !.stage = "return", !.filing_id = r.ret,
                                !.result = LoopResult(op, 0)]
                ELSE [op EXCEPT !.stage = "security", !.filing_id = r.ret, !.i = 1]
    /\ UNCHANGED <<script, driver, batch, connection, world, run, nops, prev>>

\* security_id = self.insert_security(...); if not security_id: continue
OpInsertSecurity(err) ==
    /\ Is13F(op) /\ op.stage = "security"
    /\ LET row == Items(op)[op.i]
           r == insert_security(st, connection, row.security.cusip, row.security.name, err)
       IN
       /\ Apply(r, "insert_security", <<row.security.cusip, row.security.name>>, err)
       /\ op' = IF r.ret = None
                THEN NextRow([op EXCEPT !.attempted = @ \cup {op.i}])
                ELSE [op EXCEPT !.stage = "position", !.security_id = r.ret]
    /\ UNCHANGED <<script, driver, batch, connection, world, run, nops, prev>>

\* position_id = self.insert_position(...); counted when it is not None
OpInsertPosition(err) ==
    /\ Is13F(op) /\ op.stage = "position"
    /\ LET row == Items(op)[op.i]
           r == insert_position(st, connection, op.filing_id, op.security_id,
                                row.position.value, row.position.shares,
                                row.position.share_type,
                                row.position.investment_discretion,
                                row.position.voting_authority, err)
       IN
       /\ Apply(r, "insert_position",
                <<op.filing_id, op.security_id, row.position.value, row.position.shares>>,
                err)
       /\ op' = IF r.ret = None
                THEN NextRow([op EXCEPT !.attempted = @ \cup {op.i}])
                ELSE NextRow([op EXCEPT !.attempted = @ \cup {op.i},
                                        !.stored = @ \cup {op.i},
                                        !.successful_positions =
                                            IF op.kind = "separate" THEN @ + 1 ELSE @])
    /\ UNCHANGED <<script, driver, batch, connection, world, run, nops, prev>>

\* ------------------------------------ filing-level insert operation (Form 4)
\* the frame of insert_insider_data; history fields from `fresh` on
NewOpInsider(data, caller) ==
    [kind |-> "insider", caller |-> caller, data |-> data, stage |-> "insider", i |-> 1,
     insider_id |-> None, company_id |-> None, filing_id |-> None,
     successful_transactions |-> 0, successful_holdings |-> 0, result |-> FALSE,
     fresh |-> UniqueInsiderFiling(db, Get(data.filing_info, "accession_number", "")),
     before |-> committed, parent_failed |-> FALSE, info_missing |-> FALSE,
     attempted |-> {}, stored |-> {}, attempted_h |-> {}, stored_h |-> {}]

\* if not insider_info or not issuer_info: return False
\* insider_id = self.insert_insider(...); if not insider_id: return False
OpInsertInsider(err) ==
    /\ op.kind = "insider" /\ op.stage = "insider"
    /\ IF DOMAIN op.data.insider_info = {} \/ DOMAIN op.data.issuer_info = {}
       THEN /\ op' = [op EXCEPT !.stage = "return", !.result = FALSE, !.info_missing = TRUE]
            /\ ret' = NoRet
            /\ UNCHANGED <<db, committed, faults>>
       ELSE LET info == op.data.insider_info
                rel == Get(info, "relationship", EmptyDict)
                r == insert_insider(st, connection, Get(info, "cik", ""),
                                    Get(info, "name", ""), Get(rel, "title", NoneS), rel, err)
            IN
            /\ Apply(r, "insert_insider", <<Get(info, "cik", ""), Get(info, "name", "")>>, err)
            /\ op' = IF r.ret = None
                     THEN [op EXCEPT !.stage = "return", !.result = FALSE,
                                     !.parent_failed = TRUE]
                     ELSE [op EXCEPT !.stage = "company", !.insider_id = r.ret]
    /\ UNCHANGED <<script, driver, batch, connection, world, run, nops, prev>>

\* company_id = self.insert_company(...); if not company_id: return False
OpInsertCompany(err) ==
    /\ op.kind = "insider" /\ op.stage = "company"
    /\ LET info == op.data.issuer_info
           r == insert_company(st, connection, Get(info, "cik", ""), Get(info, "name", ""),
                               Get(info, "ticker", NoneS), NoneS, NoneS, err)
       IN
       /\ Apply(r, "insert_company", <<Get(info, "cik", ""), Get(info, "name", "")>>, err)
       /\ op' = IF r.ret = None
                THEN [op EXCEPT !.stage = "return", !.result = FALSE, !.parent_failed = TRUE]
                ELSE [op EXCEPT !.stage = "filing", !.company_id = r.ret]
    /\ UNCHANGED <<script, driver, batch, connection, world, run, nops, prev>>

\* the stage after the filing row, and after the last transaction
AfterInsiderFiling(o) ==
    IF Len(o.data.transactions) > 0 THEN [o EXCEPT !.stage = "transaction", !.i = 1]
    ELSE IF Len(o.data.holdings) > 0 THEN [o EXCEPT !.stage = "holding", !.i = 1]
    ELSE [o EXCEPT !.stage = "return", !.result = TRUE]

\* filing_id = self.insert_insider_filing(...); if not filing_id: return False
OpInsertInsiderFiling(err) ==
    /\ op.kind = "insider" /\ op.stage = "filing"
    /\ LET f == op.data.filing_info
           r == insert_insider_filing(st, connection, Get(f, "accession_number", ""),
                                      op.insider_id, op.company_id,
                                      Get(f, "filed_date", None), err)
       IN
       /\ Apply(r, "insert_insider_filing",
                <<Get(f, "accession_number", ""), op.insider_id, op.company_id,
                  Get(f, "filed_date", None)>>, err)
       /\ op' = IF r.ret = None
                THEN [op EXCEPT !.stage = "return", !.result = FALSE, !.parent_failed = TRUE]
                ELSE AfterInsiderFiling([op EXCEPT !.filing_id = r.ret])
    /\ UNCHANGED <<script, driver, batch, connection, world, run, nops, prev>>

\* for transaction_data in transactions: insert_insider_transaction(filing_id, ...)
OpInsertTransaction(err) ==
    /\ op.kind = "insider" /\ op.stage = "transaction"
    /\ LET r == insert_insider_transaction(st, connection, op.filing_id,
                                           op.data.transactions[op.i], err)
           o1 == [op EXCEPT !.attempted = @ \cup {op.i},
                            !.stored = IF r.ret = None THEN @ ELSE @ \cup {op.i},
                            !.successful_transactions = IF r.ret = None THEN @ ELSE @ + 1]
       IN
       /\ Apply(r, "insert_insider_transaction", <<op.filing_id, op.i>>, err)
       /\ op' = IF op.i < Len(op.data.transactions) THEN [o1 EXCEPT !.i = @ + 1]
                ELSE IF Len(op.data.holdings) > 0
                THEN [o1 EXCEPT !.stage = "holding", !.i = 1]
                ELSE [o1 EXCEPT !.stage = "return", !.result = TRUE]
    /\ UNCHANGED <<script, driver, batch, connection, world, run, nops, prev>>

\* for holding_data in holdings: insert_insider_holding(filing_id, ...); return True
OpInsertHolding(err) ==
    /\ op.kind = "insider" /\ op.stage = "holding"
    /\ LET r == insert_insider_holding(st, connection, op.filing_id,
                                       op.data.holdings[op.i], err)
           o1 == [op EXCEPT !.attempted_h = @ \cup {op.i},
                            !.stored_h = IF r.ret = None THEN @ ELSE @ \cup {op.i},
                            !.successful_holdings = IF r.ret = None THEN @ ELSE @ + 1]
       IN
       /\ Apply(r, "insert_insider_holding", <<op.filing_id, op.i>>, err)
       /\ op' = IF op.i < Len(op.data.holdings) THEN [o1 EXCEPT !.i = @ + 1]
                ELSE [o1 EXCEPT !.stage = "return", !.result = TRUE]
    /\ UNCHANGED <<script, driver, batch, connection, world, run, nops, prev>>

\* ------------------------------------------------------------------ the world
Acc1 == "0001-24-000001"
Acc2 == "0001-24-000002"

\* one entry of filings.recent of the submissions feed
Entry(acc, form, filingDate, reportDate) ==
    [accessionNumber |-> acc, form |-> form, filingDate |-> filingDate,
     reportDate |-> reportDate]

\* the submissions feed of every CIK: the first has two filings, the second none
Feed(form) ==
    [c \in CIKs |-> IF c = "1001"
                    THEN <<Entry(Acc1, form, 1, 1), Entry(Acc2, form, 2, 2)>>
                    ELSE << >>]

\* the 'name' of the submissions feed
FeedName == [c \in CIKs |-> IF c = "1001" THEN "a" ELSE "b"]

\* 13F: the position rows of the document of every accession number
Worlds13F ==
    {[feed |-> Feed("13F-HR"), name |-> FeedName,
      docs |-> [a \in Accessions |-> IF a = Acc1 THEN d ELSE <<RowC>>]] : d \in RowSeqs}

\* Form 4 transaction records as _parse_transaction_element returns them
\* (prices in hundredths)
TxS ==
    [security_title |-> "Common Stock", transaction_date |-> 1, transaction_code |-> "S",
     transaction_shares |-> 100, transaction_price |-> 5025, shares_owned_after |-> 900,
     direct_indirect |-> "D", is_derivative |-> FALSE]
TxP ==
    [security_title |-> "Common Stock", transaction_date |-> None, transaction_code |-> "P",
     transaction_shares |-> 0, transaction_price |-> 1000, shares_owned_after |-> 910,
     direct_indirect |-> "I", is_derivative |-> FALSE]
RawTxns == {TxS, TxP}
TxnSeqs == UNION {[1..n -> RawTxns] : n \in 0..MaxRows}

Holding1 ==
    [security_title |-> "Common Stock", shares_owned |-> 900, direct_indirect |-> "D",
     is_derivative |-> FALSE]

OwnerInfo ==
    [cik |-> "2001", name |-> "DOE JOHN",
     relationship |-> [isDirector |-> TRUE, isOfficer |-> FALSE, title |-> "CEO"]]
IssuerInfo == [cik |-> "1001", name |-> "a", ticker |-> "ACM"]

\* Form 4: what the document of every accession number holds; a document
\* without a reporting-owner block has an empty insider_info
Form4Docs ==
    {[insider_info |-> OwnerInfo, issuer_info |-> IssuerInfo, transactions |-> t]
         : t \in TxnSeqs}
    \cup {[insider_info |-> EmptyDict, issuer_info |-> IssuerInfo, transactions |-> <<TxS>>]}

WorldsForm4 ==
    {[feed |-> Feed("4"), name |-> FeedName,
      docs |-> [a \in Accessions |->
                  IF a = Acc1 THEN d
                  ELSE [insider_info |-> OwnerInfo, issuer_info |-> IssuerInfo,
                        transactions |-> <<TxP>>]]]
     : d \in Form4Docs}

\* no feed and no document: the single-row inserts read neither
NoWorld == [feed |-> [c \in CIKs |-> << >>], name |-> FeedName,
            docs |-> [a \in Accessions |-> << >>]]

\* --------------------------------------------------------------------- Init
Init ==
    /\ script \in {"SEC-tracker", "INSIDER-tracker"}
    /\ driver \in {"downloader", "filing_api", "row_api"}
    /\ connection \in BOOLEAN
    /\ world \in (IF driver = "row_api" THEN {NoWorld}
                  ELSE IF script = "SEC-tracker" THEN Worlds13F ELSE WorldsForm4)
    /\ db = EmptyDb
    /\ committed = EmptyDb
    /\ op = NoOp
    /\ run = NoRun
    /\ ret = NoRet
    /\ nops = 0
    /\ prev = NoPrev
    /\ faults = 0
    /\ batch = NoBatch

Idle == op = NoOp /\ run = NoRun

\* ------------------------------------------- filing-level operations, called
\* portfolio_data as the downloader and the insert menu build it
PortfolioData(cik, name, acc, report_date, filed_date, positions) ==
    [fund |-> [cik |-> cik, name |-> name],
     filing |-> [accession_number |-> acc, report_date |-> report_date,
                 filed_date |-> filed_date],
     positions |-> positions]

\* parsed_data as parse_form4_content returns it
ParsedData(doc, acc, filed_date, holdings) ==
    [insider_info |-> doc.insider_info, issuer_info |-> doc.issuer_info,
     transactions |-> doc.transactions, holdings |-> holdings,
     filing_info |-> [accession_number |-> acc, filed_date |-> filed_date]]

\* a caller other than the downloader (the insert menu, quick_insert_and_view)
\* calls insert_complete_portfolio_data or ..._aggregated
CallInsertPortfolio(kind, cik, name, acc, date) ==
    /\ script = "SEC-tracker" /\ driver = "filing_api" /\ Idle /\ nops < MaxOps
    /\ op' = NewOp13F(kind, PortfolioData(cik, name, acc, date, date, world.docs[acc]), "api")
    /\ nops' = nops + 1
    /\ prev' = NoPrev
    /\ UNCHANGED <<script, driver, batch, connection, world, db, committed, run, faults>>
    /\ ret' = NoRet

\* a caller other than the downloader calls insert_insider_data
CallInsertInsiderData(acc, date, holdings) ==
    /\ script = "INSIDER-tracker" /\ driver = "filing_api" /\ Idle /\ nops < MaxOps
    /\ op' = NewOpInsider(ParsedData(world.docs[acc], acc, date, holdings), "api")
    /\ nops' = nops + 1
    /\ prev' = NoPrev
    /\ UNCHANGED <<script, driver, batch, connection, world, db, committed, run, faults>>
    /\ ret' = NoRet

\* the operation returns to a caller other than the downloader
OpReturn ==
    /\ op.kind # "none" /\ op.stage = "return" /\ op.caller = "api"
    /\ op' = NoOp
    /\ UNCHANGED <<script, driver, batch, connection, world, db, committed, run, nops,
                   prev, faults>>
    /\ ret' = NoRet

\* the process is killed: what is in memory and what is not committed is lost
Interrupt ==
    /\ ~Idle
    /\ op' = NoOp
    /\ run' = NoRun
    /\ db' = committed
    /\ prev' = NoPrev
    /\ batch' = NoBatch
    /\ UNCHANGED <<script, driver, connection, world, committed, nops>>
    /\ Fault(TRUE)
    /\ ret' = NoRet

OpStep ==
    \E err \in Errs :
        \/ OpInsertFund(err)
        \/ OpInsertFiling(err)
        \/ OpInsertSecurity(err)
        \/ OpInsertPosition(err)
        \/ OpInsertInsider(err)
        \/ OpInsertCompany(err)
        \/ OpInsertInsiderFiling(err)
        \/ OpInsertTransaction(err)
        \/ OpInsertHolding(err)

CallOp ==
    \/ \E kind \in {"separate", "aggregated"}, acc \in Accessions :
           CallInsertPortfolio(kind, "1001", world.name["1001"], acc, 1)
    \/ \E acc \in Accessions, holdings \in {<< >>, <<Holding1>>} :
           CallInsertInsiderData(acc, 1, holdings)

\* -------------------------------- single-row insert operations, called directly
\* a caller of the PortfolioManager API calls one insert operation
DirectCall(tracker, r, fn, args, err) ==
    /\ script = tracker /\ driver = "row_api" /\ Idle /\ nops < MaxCalls
    /\ Apply(r, fn, args, err)
    /\ nops' = nops + 1
    /\ prev' = NoPrev
    /\ UNCHANGED <<script, driver, batch, connection, world, op, run>>

\* ids a caller may pass: ids of stored rows and ids of no row
CallIds == 1..2

Call_insert_fund(cik, name, err) ==
    DirectCall("SEC-tracker", insert_fund(st, connection, cik, name, err),
               "insert_fund", <<cik, name>>, err)

Call_insert_security(cusip, name, err) ==
    DirectCall("SEC-tracker", insert_security(st, connection, cusip, name, err),
               "insert_security", <<cusip, name>>, err)

Call_insert_filing(fund_id, acc, report_date, filed_date, err) ==
    DirectCall("SEC-tracker",
               insert_filing(st, connection, fund_id, acc, report_date, filed_date, err),
               "insert_filing", <<fund_id, acc, report_date, filed_date>>, err)

Call_insert_position(filing_id, security_id, row, err) ==
    DirectCall("SEC-tracker",
               insert_position(st, connection, filing_id, security_id,
                               row.position.value, row.position.shares,
                               row.position.share_type, row.position.investment_discretion,
                               row.position.voting_authority, err),
               "insert_position",
               <<filing_id, security_id, row.position.value, row.position.shares>>, err)

Call_insert_insider(cik, name, err) ==
    DirectCall("INSIDER-tracker",
               insert_insider(st, connection, cik, name, NoneS, OwnerInfo.relationship, err),
               "insert_insider", <<cik, name>>, err)

Call_insert_company(cik, name, err) ==
    DirectCall("INSIDER-tracker",
               insert_company(st, connection, cik, name, NoneS, NoneS, NoneS, err),
               "insert_company", <<cik, name>>, err)

Call_insert_insider_filing(acc, insider_id, company_id, filed_date, err) ==
    DirectCall("INSIDER-tracker",
               insert_insider_filing(st, connection, acc, insider_id, company_id,
                                     filed_date, err),
               "insert_insider_filing", <<acc, insider_id, company_id, filed_date>>, err)

Call_insert_insider_transaction(filing_id, tx, err) ==
    DirectCall("INSIDER-tracker",
               insert_insider_transaction(st, connection, filing_id, tx, err),
               "insert_insider_transaction", <<filing_id, 0>>, err)

Call_insert_insider_holding(filing_id, h, err) ==
    DirectCall("INSIDER-tracker",
               insert_insider_holding(st, connection, filing_id, h, err),
               "insert_insider_holding", <<filing_id, 0>>, err)

CallInsert ==
    \E err \in Errs :
        \/ \E cik \in CIKs, name \in Names : Call_insert_fund(cik, name, err)
        \/ \E cusip \in CUSIPs, name \in Names : Call_insert_security(cusip, name, err)
        \/ \E fund_id \in CallIds, acc \in Accessions, date \in Dates :
               Call_insert_filing(fund_id, acc, date, date, err)
        \/ \E filing_id \in CallIds, security_id \in CallIds, row \in {RowA, RowC} :
               Call_insert_position(filing_id, security_id, row, err)
        \/ \E cik \in CIKs, name \in Names : Call_insert_insider(cik, name, err)
        \/ \E cik \in CIKs, name \in Names : Call_insert_company(cik, name, err)
        \/ \E acc \in Accessions, insider_id \in CallIds, company_id \in CallIds,
              date \in Dates :
               Call_insert_insider_filing(acc, insider_id, company_id, date, err)
        \/ \E filing_id \in CallIds : Call_insert_insider_transaction(filing_id, TxS, err)
        \/ \E filing_id \in CallIds : Call_insert_insider_holding(filing_id, Holding1, err)

\* ------------------------------------------------------------ the downloaders
\* the frame of download_and_store_13f_data ("13f") and of
\* download_and_store_form4_data ("form4").  History fields from `trace` on:
\* trace lists what was done for the current filing, clean says that nothing
\* failed in this run, check_failed that an existence query failed in it.
NewRun(kind, cik, limit_filings, use_aggregated) ==
    [kind |-> kind, cik |-> cik, limit_filings |-> limit_filings,
     use_aggregated |-> use_aggregated, stage |-> "list", fund_name |-> NoneS,
     filings |-> << >>, idx |-> 1, successful_filings |-> 0,
     result |-> FALSE,
     trace |-> << >>, clean |-> connection, check_failed |-> FALSE,
     before |-> committed,
     rerun |-> /\ prev.kind = kind /\ prev.cik = cik
               /\ prev.limit_filings = limit_filings /\ prev.clean]

\* variant: the limit is not applied to the list
Limit_all(filings, limit_filings) == filings

\* filings_df.head(limit_filings) when limit_filings is neither None nor 0
Limit(filings, limit_filings) ==
    IF limit_filings # None /\ limit_filings < Len(filings)
    THEN SubSeq(filings, 1, limit_filings) ELSE filings

\* variant: the run reports success when it went through a list that is not empty
Advance_any(r) ==
    IF r.idx < Len(r.filings)
    THEN [r EXCEPT !.idx = @ + 1, !.stage = "check", !.trace = << >>]
    ELSE [r EXCEPT !.stage = "return", !.result = TRUE]

\* the run goes on to the next filing of the list, or to its summary and return
Advance(r) ==
    IF r.idx < Len(r.filings)
    THEN [r EXCEPT !.idx = @ + 1, !.stage = "check", !.trace = << >>]
    ELSE [r EXCEPT !.stage = "return", !.result = (r.successful_filings > 0)]

StartRun13F(cik, limit_filings, use_aggregated) ==
    /\ script = "SEC-tracker" /\ driver = "downloader" /\ Idle /\ nops < MaxOps
    /\ run' = NewRun("13f", cik, limit_filings, use_aggregated)
    /\ nops' = nops + 1
    /\ prev' = NoPrev
    /\ UNCHANGED <<script, driver, batch, connection, world, db, committed, op, faults>>
    /\ ret' = NoRet

StartRunForm4(cik, limit_filings) ==
    /\ script = "INSIDER-tracker" /\ driver = "downloader" /\ Idle /\ nops < MaxOps
    /\ run' = NewRun("form4", cik, limit_filings, FALSE)
    /\ nops' = nops + 1
    /\ prev' = NoPrev
    /\ UNCHANGED <<script, driver, batch, connection, world, db, committed, op, faults>>
    /\ ret' = NoRet

\* get_fund_info_by_cik (13F only) and get_13f_filings / get_form4_filings_by_cik:
\* info_ok and list_ok say whether the two requests succeed
RunList(info_ok, list_ok) ==
    /\ run.kind # "none" /\ run.stage = "list" /\ op = NoOp
    /\ run.kind = "form4" => info_ok
    /\ LET form == IF run.kind = "13f" THEN "13F-HR" ELSE "4"
           all == IF list_ok
                  THEN SelectSeq(world.feed[run.cik], LAMBDA e : e.form = form)
                  ELSE << >>
           r1 == [run EXCEPT !.fund_name = IF run.kind = "form4" THEN NoneS
                                           ELSE IF info_ok THEN world.name[run.cik]
                                           ELSE "Unknown Fund",
                             !.clean = @ /\ info_ok /\ list_ok]
       IN  run' = IF all = << >>
                  THEN [r1 EXCEPT !.stage = "return", !.result = FALSE]
                  ELSE [r1 EXCEPT !.filings = Limit(all, run.limit_filings),
                                  !.idx = 1, !.stage = "check"]
    /\ UNCHANGED <<script, driver, batch, connection, world, db, committed, op, nops, prev>>
    /\ Fault(~info_ok \/ ~list_ok)
    /\ ret' = NoRet

\* if self.portfolio_manager.filing_exists(accessionNumber): continue
RunCheck(err) ==
    /\ run.kind # "none" /\ run.stage = "check" /\ op = NoOp
    /\ LET acc == run.filings[run.idx].accessionNumber
           exists == IF run.kind = "13f" THEN filing_exists(st, connection, acc, err)
                     ELSE insider_filing_exists(st, connection, acc, err)
           r1 == [run EXCEPT !.trace = <<"check">>,
                             !.clean = @ /\ err = "none",
                             !.check_failed = @ \/ err # "none" \/ ~connection]
       IN  run' = IF exists THEN Advance(r1) ELSE [r1 EXCEPT !.stage = "fetch"]
    /\ UNCHANGED <<script, driver, batch, connection, world, db, committed, op, nops, prev>>
    /\ Fault(err # "none")
    /\ ret' = NoRet

\* datetime.strptime(text, '%Y-%m-%d').date(): a date, or None here when it raises
Strptime(text) == IF text \in Dates THEN text ELSE None

\* variant: the insert operation is called whatever the parser returned
HasPositions_always(positions) == TRUE

\* if positions: (the parser returned at least one position)
HasPositions(positions) == positions # << >>

\* 13F: the index page, its .xml links, the two dates, parse_13f_xml, and then
\* the insert call when the parser returned positions.
\* outcome: "index_fail" (status not 200), "no_xml", "xml_fail" (the document
\* request fails, the parser returns []), "ok"
RunFetch13F(outcome) ==
    /\ run.kind = "13f" /\ run.stage = "fetch" /\ op = NoOp
    /\ LET e == run.filings[run.idx]
           report_date == Strptime(e.reportDate)
           filed_date == Strptime(e.filingDate)
           positions == IF outcome = "ok" THEN world.docs[e.accessionNumber] ELSE << >>
           r1 == [run EXCEPT !.clean = @ /\ outcome = "ok"]
       IN
       IF outcome \in {"index_fail", "no_xml"}
       THEN /\ run' = Advance([r1 EXCEPT !.trace = @ \o <<"index">>])
            /\ op' = op
       ELSE IF report_date = None \/ filed_date = None
       THEN /\ run' = Advance([r1 EXCEPT !.trace = @ \o <<"index">>])
            /\ op' = op
       ELSE IF ~HasPositions(positions)
       THEN /\ run' = Advance([r1 EXCEPT !.trace = @ \o <<"index", "document">>])
            /\ op' = op
       ELSE /\ run' = [r1 EXCEPT !.stage = "insert",
                                 !.trace = @ \o <<"index", "document", "insert">>]
            /\ op' = NewOp13F(IF run.use_aggregated THEN "aggregated" ELSE "separate",
                              PortfolioData(run.cik, run.fund_name, e.accessionNumber,
                                            report_date, filed_date, positions),
                              "run")
    /\ UNCHANGED <<script, driver, batch, connection, world, db, committed, nops, prev>>
    /\ Fault(outcome # "ok")
    /\ ret' = NoRet

\* _extract_holdings returns the empty list for every document
extract_holdings(doc) == << >>

\* what parse_form4_content returns for content that is not the Form 4 document
NoForm4 == [insider_info |-> EmptyDict, issuer_info |-> EmptyDict, transactions |-> << >>]

\* if parsed_data and (parsed_data['transactions'] or parsed_data['holdings']):
HasRecords(parsed_data) ==
    parsed_data.transactions # << >> \/ parsed_data.holdings # << >>

\* Form 4: the document (or, when its status is not 200, the index page and its
\* first .xml/.txt link), parse_form4_content, and then the insert call when
\* the parser returned transactions or holdings.
\* outcome: "ok" (document fetched), "index_fail", "no_links", "fallback"
\* (document through the index page), "other" (the content fetched is not the
\* Form 4 document: nothing is extracted)
RunFetchForm4(outcome) ==
    /\ run.kind = "form4" /\ run.stage = "fetch" /\ op = NoOp
    /\ LET e == run.filings[run.idx]
           doc == IF outcome \in {"ok", "fallback"} THEN world.docs[e.accessionNumber]
                  ELSE NoForm4
           parsed_data == ParsedData(doc, e.accessionNumber, e.filingDate,
                                     extract_holdings(doc))
           r1 == [run EXCEPT !.clean = @ /\ outcome = "ok"]
           fetched == IF outcome = "ok" THEN <<"document">> ELSE <<"document", "index">>
       IN
       IF outcome \in {"index_fail", "no_links"}
       THEN /\ run' = Advance([r1 EXCEPT !.trace = @ \o fetched])
            /\ op' = op
       ELSE IF ~HasRecords(parsed_data)
       THEN /\ run' = Advance([r1 EXCEPT !.trace = @ \o fetched \o <<"parse">>])
            /\ op' = op
       ELSE /\ run' = [r1 EXCEPT !.stage = "insert",
                                 !.trace = @ \o fetched \o <<"parse", "insert">>]
            /\ op' = NewOpInsider(parsed_data, "run")
    /\ UNCHANGED <<script, driver, batch, connection, world, db, committed, nops, prev>>
    /\ Fault(outcome # "ok")
    /\ ret' = NoRet

\* nothing failed in operation o
OpClean(o) ==
    /\ connection /\ ~o.parent_failed
    /\ o.attempted = o.stored
    /\ o.kind = "insider" => ~o.info_missing /\ o.attempted_h = o.stored_h

\* success = insert_...(data); if success: successful_filings += 1
RunAfterInsert ==
    /\ run.kind # "none" /\ run.stage = "insert"
    /\ op.kind # "none" /\ op.stage = "return" /\ op.caller = "run"
    /\ run' = Advance([run EXCEPT
                          !.successful_filings = IF op.result THEN @ + 1 ELSE @,
                          !.clean = @ /\ OpClean(op)])
    /\ op' = NoOp
    /\ UNCHANGED <<script, driver, batch, connection, world, db, committed, nops, prev, faults>>
    /\ ret' = NoRet

\* return successful_filings > 0
RunReturn ==
    /\ run.kind # "none" /\ run.stage = "return" /\ op = NoOp
    /\ batch = NoBatch
    /\ prev' = [kind |-> run.kind, cik |-> run.cik, limit_filings |-> run.limit_filings,
                clean |-> run.clean, result |-> run.result]
    /\ run' = NoRun
    /\ UNCHANGED <<script, driver, batch, connection, world, db, committed, op, nops, faults>>
    /\ ret' = NoRet

\* limit_filings: None (all filings) or a number
Limits == {None, 1}

StartRun ==
    \/ \E cik \in CIKs, limit_filings \in Limits, use_aggregated \in BOOLEAN :
           StartRun13F(cik, limit_filings, use_aggregated)
    \/ \E cik \in CIKs, limit_filings \in Limits : StartRunForm4(cik, limit_filings)

\* the steps of a run before its return
RunWork ==
    \/ \E info_ok \in BOOLEAN, list_ok \in BOOLEAN : RunList(info_ok, list_ok)
    \/ \E err \in {"none", "select"} : RunCheck(err)
    \/ \E outcome \in {"index_fail", "no_xml", "xml_fail", "ok"} : RunFetch13F(outcome)
    \/ \E outcome \in {"index_fail", "no_links", "fallback", "other", "ok"} :
           RunFetchForm4(outcome)
    \/ RunAfterInsert

RunStep == RunWork \/ RunReturn

\* ------------------------------------------------- the batch entry points
\* the frame of download_multiple_funds ("13f") and of
\* download_multiple_insider_data ("form4"): ciks is the list, i the position of
\* the loop in it, results the dictionary.  called is history: the CIKs whose
\* download was called, in call order.
NewBatch(kind, ciks, limit_filings, use_aggregated) ==
    [kind |-> kind, ciks |-> ciks, i |-> 1, limit_filings |-> limit_filings,
     use_aggregated |-> use_aggregated, results |-> EmptyDict,
     stage |-> IF ciks = << >> THEN "return" ELSE "call",
     called |-> << >>]

\* lists of CIKs a caller passes: every CIK at most once
CikLists ==
    {<< >>} \cup {<<c>> : c \in CIKs}
            \cup {l \in CIKs \X CIKs : l[1] # l[2]}

\* variant: the loop ends at the first entity whose download fails
NextCik_stop(b, success) ==
    [b EXCEPT !.results = [c \in DOMAIN @ \cup {b.ciks[b.i]} |->
                              IF c = b.ciks[b.i] THEN success ELSE @[c]],
              !.i = @ + 1,
              !.stage = IF b.i < Len(b.ciks) /\ success THEN "call" ELSE "return"]

\* results[cik] = success, and the loop goes on to the next CIK of the list
NextCik(b, success) ==
    [b EXCEPT !.results = [c \in DOMAIN @ \cup {b.ciks[b.i]} |->
                              IF c = b.ciks[b.i] THEN success ELSE @[c]],
              !.i = @ + 1,
              !.stage = IF b.i < Len(b.ciks) THEN "call" ELSE "return"]

\* download_multiple_funds(ciks, limit_filings, use_aggregated) or
\* download_multiple_insider_data(ciks, limit_filings) is called: results = {}
StartBatch(ciks, limit_filings, use_aggregated) ==
    /\ driver = "batch" /\ Idle /\ batch = NoBatch
    /\ nops + Len(ciks) <= MaxOps
    /\ script = "INSIDER-tracker" => ~use_aggregated
    /\ batch' = NewBatch(IF script = "SEC-tracker" THEN "13f" ELSE "form4",
                         ciks, limit_filings, use_aggregated)
    /\ prev' = NoPrev
    /\ UNCHANGED <<script, driver, connection, world, db, committed, op, run, nops, faults>>
    /\ ret' = NoRet

\* success = self.download_and_store_...(cik, ...): the call for the CIK at i
BatchCall ==
    /\ batch.kind # "none" /\ batch.stage = "call" /\ run = NoRun
    /\ run' = NewRun(batch.kind, batch.ciks[batch.i], batch.limit_filings,
                     batch.use_aggregated)
    /\ batch' = [batch EXCEPT !.stage = "run", !.called = Append(@, batch.ciks[batch.i])]
    /\ nops' = nops + 1
    /\ prev' = NoPrev
    /\ UNCHANGED <<script, driver, connection, world, db, committed, op, faults>>
    /\ ret' = NoRet

\* the call returns: results[cik] = success
BatchNext ==
    /\ batch.kind # "none" /\ batch.stage = "run"
    /\ run.kind # "none" /\ run.stage = "return" /\ op = NoOp
    /\ batch' = NextCik(batch, run.result)
    /\ prev' = [kind |-> run.kind, cik |-> run.cik, limit_filings |-> run.limit_filings,
                clean |-> run.clean, result |-> run.result]
    /\ run' = NoRun
    /\ UNCHANGED <<script, driver, connection, world, db, committed, op, nops, faults>>
    /\ ret' = NoRet

\* return results
BatchReturn ==
    /\ batch.kind # "none" /\ batch.stage = "return"
    /\ batch' = NoBatch
    /\ UNCHANGED <<script, driver, connection, world, db, committed, op, run, nops, prev,
                   faults>>
    /\ ret' = NoRet

BatchStep ==
    \/ \E ciks \in CikLists, limit_filings \in Limits, use_aggregated \in BOOLEAN :
           StartBatch(ciks, limit_filings, use_aggregated)
    \/ BatchCall
    \/ BatchNext
    \/ BatchReturn

\* ------------------------------------------------------------ 13F documents
\* the texts int() converts and their values; int() raises ValueError for every
\* other text
IntTexts == [t \in {"1000", "10", "7", "3"} |->
                IF t = "1000" THEN 1000 ELSE IF t = "10" THEN 10 ELSE IF t = "7" THEN 7 ELSE 3]

\* the texts of one infotable row of a 13F document; the optional elements
\* (putcall, sshprnamttype, investmentdiscretion, votingauthority) are absent
RawRow(nameofissuer, titleofclass, cusip, value, sshprnamt) ==
    [nameofissuer |-> nameofissuer, titleofclass |-> titleofclass, cusip |-> cusip,
     value |-> value, sshprnamt |-> sshprnamt]

\* rows with every text well formed, and with a value or a share amount that
\* is no integer
Raw13FRows ==
    {RawRow("APPLE", "COM", "037833100", "1000", "10"),
     RawRow("MICROSOFT", "COM", "594918104", "7", "3"),
     RawRow("APPLE", "COM", "037833100", "N/A", "10"),
     RawRow("MICROSOFT", "COM", "594918104", "7", "1,000.5")}

\* the body of the loop raises for a row: int() of its value or of its share amount
RowRaises(row) == row.value \notin DOMAIN IntTexts \/ row.sshprnamt \notin DOMAIN IntTexts

\* position_data of a row for which nothing raises (the keys the insert
\* operations read)
PositionData(row) ==
    [security |-> [cusip |-> row.cusip,
                   name |-> row.nameofissuer \o " - " \o row.titleofclass],
     position |-> [value |-> IntTexts[row.value], shares |-> IntTexts[row.sshprnamt],
                   share_type |-> "SH", investment_discretion |-> "SOLE",
                   voting_authority |-> "SOLE"]]

\* for row in tables: try: ... positions.append(position_data)
\*                    except Exception: continue
RECURSIVE ParseRows(_)
ParseRows(tables) ==
    IF tables = << >> THEN << >>
    ELSE (IF RowRaises(Head(tables)) THEN << >> ELSE <<PositionData(Head(tables))>>)
         \o ParseRows(Tail(tables))

\* parse_13f_xml: response_ok says whether the request for the document
\* succeeds; when it does not the function returns []
parse_13f_xml(response_ok, tables) == IF response_ok THEN ParseRows(tables) ELSE << >>

\* ------------------------------------------------------- Form 4 documents
\* an element of a parsed document (a BeautifulSoup Tag): its tag name, its text
\* and its child elements in document order
Elem(name, text, kids) == [name |-> name, text |-> text, kids |-> kids]

\* None as the result of find
NoTag == Elem("", "", << >>)

\* the elements below a list of elements, in document order
RECURSIVE Descendants(_)
Descendants(kids) ==
    IF kids = << >> THEN << >>
    ELSE <<Head(kids)>> \o Descendants(Head(kids).kids) \o Descendants(Tail(kids))

\* element.find_all(name)
find_all(element, name) == SelectSeq(Descendants(element.kids), LAMBDA e : e.name = name)

\* element.find(name)
find(element, name) ==
    LET found == find_all(element, name) IN IF found = << >> THEN NoTag ELSE found[1]

\* for tag_name in tags: elem = element.find(tag_name); if elem: break
RECURSIVE FindAny(_, _)
FindAny(element, tags) ==
    IF tags = << >> THEN NoTag
    ELSE IF find(element, Head(tags)) # NoTag THEN find(element, Head(tags))
    ELSE FindAny(element, Tail(tags))

\* str.upper() and str.lower() of the names of the relationship flags
Upper == [isDirector |-> "ISDIRECTOR", isOfficer |-> "ISOFFICER",
          isTenPercentOwner |-> "ISTENPERCENTOWNER", isOther |-> "ISOTHER"]
Lower == [isDirector |-> "isdirector", isOfficer |-> "isofficer",
          isTenPercentOwner |-> "istenpercentowner", isOther |-> "isother"]

\* dict[key] = value
Put(dict, key, value) ==
    [k \in DOMAIN dict \cup {key} |-> IF k = key THEN value ELSE dict[k]]

\* if elem: dict[key] = elem.get_text(strip=True)
PutText(dict, key, elem) == IF elem # NoTag THEN Put(dict, key, elem.text) ELSE dict

\* the texts float() converts and their values, in hundredths; float() raises
\* ValueError for every other text
FloatTexts == [t \in {"100", "50.25", "900"} |->
                  IF t = "100" THEN 10000 ELSE IF t = "50.25" THEN 5025 ELSE 90000]

\* variant: a text that is no number is read as 1
FloatOrZero_one(text) == IF text \in DOMAIN FloatTexts THEN FloatTexts[text] ELSE 1

\* try: float(text)  except (ValueError, TypeError): 0
FloatOrZero(text) == IF text \in DOMAIN FloatTexts THEN FloatTexts[text] ELSE 0

\* the texts strptime(text, '%Y-%m-%d') converts and their dates; strptime raises
\* ValueError for every other text
DateTexts ==
    [t \in {"2024-01-15", "2024-02-20", "2024-03-31"} |->
        IF t = "2024-01-15" THEN 1 ELSE IF t = "2024-02-20" THEN 2 ELSE 3]

\* try: datetime.strptime(text, '%Y-%m-%d').date()  except ValueError: None
DateOrNone(text) == IF text \in DOMAIN DateTexts THEN DateTexts[text] ELSE None

\* the relationship flags and the title of a reporting owner
RECURSIVE RelationshipFlags(_, _, _)
RelationshipFlags(relationship, fields, info) ==
    IF fields = << >> THEN info
    ELSE LET field == Head(fields)
             elem == IF find(relationship, field) # NoTag THEN find(relationship, field)
                     ELSE IF find(relationship, Upper[field]) # NoTag
                     THEN find(relationship, Upper[field])
                     ELSE find(relationship, Lower[field])
         IN  RelationshipFlags(relationship, Tail(fields),
                               IF elem # NoTag THEN Put(info, field, elem.text = "1")
                               ELSE info)

extract_insider_info(reporting_owner) ==
    LET cik == FindAny(reporting_owner,
                       <<"reportingOwnerCik", "reporting-owner-cik", "cik", "CIK">>)
        name == FindAny(reporting_owner,
                        <<"reportingOwnerName", "reporting-owner-name", "name", "NAME">>)
        relationship == FindAny(reporting_owner,
                                <<"reportingOwnerRelationship", "relationship", "RELATIONSHIP">>)
        flags == RelationshipFlags(relationship,
                     <<"isDirector", "isOfficer", "isTenPercentOwner", "isOther">>, EmptyDict)
        title_elem == IF find(relationship, "officerTitle") # NoTag
                      THEN find(relationship, "officerTitle")
                      ELSE find(relationship, "OFFICER-TITLE")
        insider_info == PutText(PutText(EmptyDict, "cik", cik), "name", name)
    IN  IF relationship = NoTag THEN insider_info
        ELSE Put(insider_info, "relationship", PutText(flags, "title", title_elem))

extract_issuer_info(issuer) ==
    LET cik == FindAny(issuer, <<"issuerCik", "issuer-cik", "cik", "CIK">>)
        name == FindAny(issuer, <<"issuerName", "issuer-name", "name", "NAME">>)
        ticker == FindAny(issuer, <<"issuerTradingSymbol", "issuer-trading-symbol",
                                    "trading-symbol", "ticker">>)
    IN  PutText(PutText(PutText(EmptyDict, "cik", cik), "name", name), "ticker", ticker)

\* the record of one transaction element: the defaults, and every field whose
\* element is found
parse_transaction_element(transaction_elem, is_derivative) ==
    LET title_elem == find(transaction_elem, "securityTitle")
        date_elem == find(transaction_elem, "transactionDate")
        code_elem == find(transaction_elem, "transactionCode")
        shares_elem == find(transaction_elem, "transactionShares")
        price_elem == find(transaction_elem, "transactionPricePerShare")
        owned_elem == find(transaction_elem, "sharesOwnedFollowingTransaction")
        direct_elem == find(transaction_elem, "directOrIndirectOwnership")
    IN  [is_derivative |-> is_derivative,
         security_title |-> IF title_elem # NoTag THEN title_elem.text ELSE "",
         transaction_date |-> IF date_elem # NoTag THEN DateOrNone(date_elem.text) ELSE None,
         transaction_code |-> IF code_elem # NoTag THEN code_elem.text ELSE "",
         transaction_shares |-> IF shares_elem # NoTag THEN FloatOrZero(shares_elem.text)
                                ELSE 0,
         transaction_price |-> IF price_elem # NoTag THEN FloatOrZero(price_elem.text) ELSE 0,
         shares_owned_after |-> IF owned_elem # NoTag THEN FloatOrZero(owned_elem.text) ELSE 0,
         direct_indirect |-> IF direct_elem # NoTag THEN direct_elem.text ELSE "D"]

\* for trans_tag in transaction_tags: table.find_all(trans_tag)
RECURSIVE TableTransactions(_, _, _)
TableTransactions(table, transaction_tags, is_derivative) ==
    IF transaction_tags = << >> THEN << >>
    ELSE LET trans_elements == find_all(table, Head(transaction_tags))
         IN  [k \in 1..Len(trans_elements) |->
                  parse_transaction_element(trans_elements[k], is_derivative)]
             \o TableTransactions(table, Tail(transaction_tags), is_derivative)

\* 'derivative' in table_tag.lower() and 'non' not in table_tag.lower()
IsDerivativeTag(table_tag) ==
    table_tag \in {"derivativeTable", "derivative-table", "DERIVATIVE-TABLE"}

\* for table_tag in table_tags: table = soup.find(table_tag); if table: ...
RECURSIVE ExtractTables(_, _)
ExtractTables(soup, table_tags) ==
    IF table_tags = << >> THEN << >>
    ELSE LET table == find(soup, Head(table_tags))
             transaction_tags ==
                 <<"nonDerivativeTransaction", "non-derivative-transaction",
                   "NON-DERIVATIVE-TRANSACTION", "derivativeTransaction",
                   "derivative-transaction", "DERIVATIVE-TRANSACTION">>
         IN  (IF table = NoTag THEN << >>
              ELSE TableTransactions(table, transaction_tags, IsDerivativeTag(Head(table_tags))))
             \o ExtractTables(soup, Tail(table_tags))

extract_transactions(soup) ==
    ExtractTables(soup, <<"nonDerivativeTable", "non-derivative-table", "NON-DERIVATIVE-TABLE",
                          "derivativeTable", "derivative-table", "DERIVATIVE-TABLE">>)

\* content BeautifulSoup cannot read (it raises)
NoContent == Elem("None", "", << >>)

\* variant: the except branch returns the filing info alone
EmptyParsed_bare(filing_info) == [filing_info |-> filing_info]

\* what the except branch of parse_form4_content returns
EmptyParsed(filing_info) ==
    [insider_info |-> EmptyDict, issuer_info |-> EmptyDict, transactions |-> << >>,
     holdings |-> << >>, filing_info |-> filing_info]

\* parse_form4_content: soup is the parsed content
parse_form4_content(soup, filing_info) ==
    IF soup = NoContent THEN EmptyParsed(filing_info)
    ELSE LET reporting_owner == FindAny(soup, <<"reportingOwner", "reporting-owner",
                                                "REPORTING-OWNER">>)
             issuer == FindAny(soup, <<"issuer", "ISSUER">>)
         IN  [insider_info |-> IF reporting_owner # NoTag
                               THEN extract_insider_info(reporting_owner) ELSE EmptyDict,
              issuer_info |-> IF issuer # NoTag THEN extract_issuer_info(issuer)
                              ELSE EmptyDict,
              transactions |-> extract_transactions(soup),
              holdings |-> extract_holdings(soup),
              filing_info |-> filing_info]

\* ---------------------------------------------------- the submissions feed
\* texts the operations below take apart are sequences of characters
AccA == <<"1", "-", "2", "4", "-", "7">>
AccB == <<"1", "-", "2", "4", "-", "8">>
AccC == <<"1", "-", "2", "5", "-", "9">>

\* one entry of the arrays of filings.recent: the form, the filing date, and
\* the accession number that goes with the date
RecentEntry(form, filingDate) ==
    [form |-> form, filingDate |-> filingDate, reportDate |-> filingDate,
     accessionNumber |-> IF filingDate = "2024-01-15" THEN AccA
                         ELSE IF filingDate = "2024-02-20" THEN AccB ELSE AccC]

RecentEntries ==
    {RecentEntry(form, d) : form \in {"4", "13F-HR", "4/A"}, d \in DOMAIN DateTexts}

\* the CIKs a caller passes and what f"{int(cik)}" makes of them
CikInt == [c \in {"1001", "0001002"} |-> IF c = "1001" THEN "1001" ELSE "1002"]

\* variant: str.replace(old, '', 1) removes the first occurrence only
Replace_first(text, old) ==
    LET at == {k \in 1..Len(text) : text[k] = old}
    IN  IF at = {} THEN text
        ELSE LET first == CHOOSE k \in at : \A j \in at : k <= j
             IN  SubSeq(text, 1, first - 1) \o SubSeq(text, first + 1, Len(text))

\* str.replace(old, ''): every occurrence of the character is removed
Replace(text, old) == SelectSeq(text, LAMBDA c : c # old)

\* f"https://www.sec.gov/Archives/edgar/data/{int(cik)}/{nodash}/{withdash}{suffix}"
ArchiveUrl(cik, nodash, withdash, suffix) ==
    <<"https://www.sec.gov", "/Archives/edgar/data/", CikInt[cik], "/">>
    \o nodash \o <<"/">> \o withdash \o <<suffix>>

\* variant: the filter on the form keeps every entry
IsForm_any(entry, form) == TRUE

\* filings_df['form'] == form
IsForm(entry, form) == entry.form = form

\* get_13f_filings(cik): response_ok says whether the request succeeds and the
\* feed is read; recent is filings.recent of the feed
get_13f_filings(response_ok, cik, recent) ==
    IF ~response_ok THEN << >>
    ELSE LET filings13F == SelectSeq(recent, LAMBDA e : IsForm(e, "13F-HR"))
         IN  [k \in 1..Len(filings13F) |->
                 [form |-> filings13F[k].form,
                  filingDate |-> filings13F[k].filingDate,
                  reportDate |-> filings13F[k].reportDate,
                  accessionNumber |-> filings13F[k].accessionNumber,
                  accession_withdash |-> filings13F[k].accessionNumber,
                  accession_nodash |-> Replace(filings13F[k].accessionNumber, "-"),
                  url |-> ArchiveUrl(cik, Replace(filings13F[k].accessionNumber, "-"),
                                     filings13F[k].accessionNumber, "-index.html")]]

\* get_form4_filings_by_cik(cik, start_date, end_date); the dates are None or dates
get_form4_filings_by_cik(response_ok, cik, recent, start_date, end_date) ==
    IF ~response_ok THEN << >>
    ELSE LET form4 == SelectSeq(recent, LAMBDA e : IsForm(e, "4"))
             dated == [k \in 1..Len(form4) |->
                          [form4[k] EXCEPT !.filingDate = DateTexts[@]]]
             from == IF start_date # None
                     THEN SelectSeq(dated, LAMBDA e : e.filingDate >= start_date)
                     ELSE dated
             upto == IF end_date # None
                     THEN SelectSeq(from, LAMBDA e : e.filingDate <= end_date)
                     ELSE from
         IN  [k \in 1..Len(upto) |->
                 [form |-> upto[k].form,
                  filingDate |-> upto[k].filingDate,
                  reportDate |-> upto[k].reportDate,
                  accessionNumber |-> upto[k].accessionNumber,
                  accession_withdash |-> upto[k].accessionNumber,
                  accession_nodash |-> Replace(upto[k].accessionNumber, "-"),
                  url |-> ArchiveUrl(cik, Replace(upto[k].accessionNumber, "-"),
                                     upto[k].accessionNumber, ".txt")]]

\* ---------------------------------------------- Form 4 documents as written
\* the three ways of writing a tag name
Dialects == {"camelCase", "kebab-case", "UPPER-KEBAB"}

\* the tags of a Form 4 document, in camelCase
Form4Tags ==
    <<"ownershipDocument", "issuer", "issuerCik", "issuerName", "issuerTradingSymbol",
      "reportingOwner", "reportingOwnerCik", "reportingOwnerName",
      "reportingOwnerRelationship", "isDirector", "isOfficer", "officerTitle",
      "nonDerivativeTable", "nonDerivativeTransaction", "derivativeTable",
      "derivativeTransaction", "securityTitle", "transactionDate", "transactionCode",
      "transactionShares", "transactionPricePerShare", "sharesOwnedFollowingTransaction",
      "directOrIndirectOwnership", "nonDerivativeHolding">>

\* the same tags in kebab-case and in upper-kebab
KebabTags ==
    <<"ownership-document", "issuer", "issuer-cik", "issuer-name", "issuer-trading-symbol",
      "reporting-owner", "reporting-owner-cik", "reporting-owner-name",
      "reporting-owner-relationship", "is-director", "is-officer", "officer-title",
      "non-derivative-table", "non-derivative-transaction", "derivative-table",
      "derivative-transaction", "security-title", "transaction-date", "transaction-code",
      "transaction-shares", "transaction-price-per-share",
      "shares-owned-following-transaction", "direct-or-indirect-ownership",
      "non-derivative-holding">>
UpperKebabTags ==
    <<"OWNERSHIP-DOCUMENT", "ISSUER", "ISSUER-CIK", "ISSUER-NAME", "ISSUER-TRADING-SYMBOL",
      "REPORTING-OWNER", "REPORTING-OWNER-CIK", "REPORTING-OWNER-NAME",
      "REPORTING-OWNER-RELATIONSHIP", "IS-DIRECTOR", "IS-OFFICER", "OFFICER-TITLE",
      "NON-DERIVATIVE-TABLE", "NON-DERIVATIVE-TRANSACTION", "DERIVATIVE-TABLE",
      "DERIVATIVE-TRANSACTION", "SECURITY-TITLE", "TRANSACTION-DATE", "TRANSACTION-CODE",
      "TRANSACTION-SHARES", "TRANSACTION-PRICE-PER-SHARE",
      "SHARES-OWNED-FOLLOWING-TRANSACTION", "DIRECT-OR-INDIRECT-OWNERSHIP",
      "NON-DERIVATIVE-HOLDING">>

\* the name of a tag (given in camelCase) in a dialect
TagName(dialect, tag) ==
    LET i == CHOOSE k \in 1..Len(Form4Tags) : Form4Tags[k] = tag
    IN  IF dialect = "camelCase" THEN tag
        ELSE IF dialect = "kebab-case" THEN KebabTags[i] ELSE UpperKebabTags[i]

\* the texts of one transaction of a document
RawTxn(table, date, shares, price, owned) ==
    [table |-> table, title |-> "Common Stock", date |-> date, code |-> "S",
     shares |-> shares, price |-> price, owned |-> owned, ownership |-> "I"]

\* transactions with every text well formed, and with one text that is no
\* number or no date
RawForm4Txns ==
    {RawTxn("nonDerivativeTable", "2024-01-15", "100", "50.25", "900"),
     RawTxn("derivativeTable", "2024-02-20", "100", "50.25", "900"),
     RawTxn("nonDerivativeTable", "2024-01-15", "N/A", "50.25", "900"),
     RawTxn("nonDerivativeTable", "2024-01-15", "100", "", "900"),
     RawTxn("nonDerivativeTable", "2024-01-15", "100", "50.25", "1,000"),
     RawTxn("nonDerivativeTable", "01/15/2024", "100", "50.25", "900")}

\* the texts of a holding of a document: a line item without a transaction
RawHolding == [title |-> "Common Stock", owned |-> "900", ownership |-> "D"]

\* what a Form 4 document says: whether it has a reporting owner, its
\* transactions and its holdings
RawForm4Docs ==
    [owner : BOOLEAN, txns : UNION {[1..n -> RawForm4Txns] : n \in 0..MaxRows},
     holdings : UNION {[1..n -> {RawHolding}] : n \in 0..MaxRows}]

\* the element of one transaction, written in a dialect
TxnElem(dialect, t) ==
    Elem(TagName(dialect, IF t.table = "derivativeTable" THEN "derivativeTransaction"
                          ELSE "nonDerivativeTransaction"), "",
         <<Elem(TagName(dialect, "securityTitle"), t.title, << >>),
           Elem(TagName(dialect, "transactionDate"), t.date, << >>),
           Elem(TagName(dialect, "transactionCode"), t.code, << >>),
           Elem(TagName(dialect, "transactionShares"), t.shares, << >>),
           Elem(TagName(dialect, "transactionPricePerShare"), t.price, << >>),
           Elem(TagName(dialect, "sharesOwnedFollowingTransaction"), t.owned, << >>),
           Elem(TagName(dialect, "directOrIndirectOwnership"), t.ownership, << >>)>>)

\* the element of one holding, written in a dialect
HoldingElem(dialect, h) ==
    Elem(TagName(dialect, "nonDerivativeHolding"), "",
         <<Elem(TagName(dialect, "securityTitle"), h.title, << >>),
           Elem(TagName(dialect, "sharesOwnedFollowingTransaction"), h.owned, << >>),
           Elem(TagName(dialect, "directOrIndirectOwnership"), h.ownership, << >>)>>)

\* the table element with the transactions of the document that belong to it
\* and, in the non-derivative table, the holdings
TableElem(dialect, doc, table) ==
    LET mine == SelectSeq(doc.txns, LAMBDA t : t.table = table)
        held == IF table = "nonDerivativeTable" THEN doc.holdings ELSE << >>
    IN  Elem(TagName(dialect, table), "",
             [k \in 1..Len(mine) |-> TxnElem(dialect, mine[k])]
             \o [k \in 1..Len(held) |-> HoldingElem(dialect, held[k])])

\* the document written in a dialect, as BeautifulSoup reads it
Form4Soup(dialect, doc) ==
    LET issuer == Elem(TagName(dialect, "issuer"), "",
                       <<Elem(TagName(dialect, "issuerCik"), "1001", << >>),
                         Elem(TagName(dialect, "issuerName"), "a", << >>),
                         Elem(TagName(dialect, "issuerTradingSymbol"), "ACM", << >>)>>)
        relationship ==
            Elem(TagName(dialect, "reportingOwnerRelationship"), "",
                 <<Elem(TagName(dialect, "isDirector"), "1", << >>),
                   Elem(TagName(dialect, "isOfficer"), "0", << >>),
                   Elem(TagName(dialect, "officerTitle"), "CEO", << >>)>>)
        owner == Elem(TagName(dialect, "reportingOwner"), "",
                      <<Elem(TagName(dialect, "reportingOwnerCik"), "2001", << >>),
                        Elem(TagName(dialect, "reportingOwnerName"), "DOE JOHN", << >>),
                        relationship>>)
        tables == <<TableElem(dialect, doc, "nonDerivativeTable"),
                    TableElem(dialect, doc, "derivativeTable")>>
        root == Elem(TagName(dialect, "ownershipDocument"), "",
                     <<issuer>> \o (IF doc.owner THEN <<owner>> ELSE << >>) \o tables)
    IN  Elem("[document]", "", <<root>>)

Next == CallInsert \/ CallOp \/ OpStep \/ OpReturn \/ StartRun \/ RunStep \/ Interrupt

Spec == Init /\ [][Next]_vars

\* the scripts call the batch entry points: what runs is the loop over the list
\* of CIKs and, inside it, the downloader run of each.  The code is sequential:
\* a step that can be taken is taken unless the process is killed.
\* The first filing has no child record or one, the second has one.
BatchWorlds ==
    {w \in Worlds13F : w.docs[Acc1] \in {<< >>, <<RowA>>}}
    \cup {w \in WorldsForm4 : /\ w.docs[Acc1].insider_info = OwnerInfo
                                /\ w.docs[Acc1].transactions \in {<< >>, <<TxS>>}}

InitBatch ==
    /\ script \in {"SEC-tracker", "INSIDER-tracker"}
    /\ driver = "batch"
    /\ connection \in BOOLEAN
    /\ world \in {w \in BatchWorlds :
                     w.feed["1001"][1].form = IF script = "SEC-tracker" THEN "13F-HR" ELSE "4"}
    /\ db = EmptyDb
    /\ committed = EmptyDb
    /\ op = NoOp
    /\ run = NoRun
    /\ ret = NoRet
    /\ nops = 0
    /\ prev = NoPrev
    /\ faults = 0
    /\ batch = NoBatch

\* the steps of the insert operations a run calls (it passes no holdings)
OpStepRun ==
    \E err \in Errs :
        \/ OpInsertFund(err)
        \/ OpInsertFiling(err)
        \/ OpInsertSecurity(err)
        \/ OpInsertPosition(err)
        \/ OpInsertInsider(err)
        \/ OpInsertCompany(err)
        \/ OpInsertInsiderFiling(err)
        \/ OpInsertTransaction(err)

NextBatch == BatchStep \/ RunWork \/ OpStepRun \/ Interrupt

SpecBatch == InitBatch /\ [][NextBatch]_vars /\ WF_vars(BatchStep \/ RunWork \/ OpStepRun)

\* ---------------------------------------------------------------- parsing
\* the parsers applied to documents as written, and what the downloader does
\* with their result, and the fetchers applied to feeds.  world is the input:
\* a Form 4 document in one dialect, a 13F document and the two dates of its
\* feed entry, or the feed of a CIK.
Form4Inputs ==
    {[kind |-> "form4", dialect |-> d, doc |-> doc, content |-> Form4Soup(d, doc)]
         : d \in Dialects, doc \in RawForm4Docs}
    \cup {[kind |-> "form4", dialect |-> "camelCase", doc |-> doc, content |-> NoContent]
              : doc \in {[owner |-> FALSE, txns |-> << >>, holdings |-> << >>]}}

Inputs13F ==
    {[kind |-> "13f", tables |-> t, reportDate |-> r, filingDate |-> f]
         : t \in UNION {[1..n -> Raw13FRows] : n \in 0..MaxRows},
           r \in {"2024-01-15", "20240115"}, f \in {"2024-02-20", ""}}

\* the feed of a CIK
FeedInputs ==
    {[kind |-> "feed", cik |-> c, recent |-> r]
         : c \in DOMAIN CikInt, r \in UNION {[1..n -> RecentEntries] : n \in 0..MaxRows}}

InitParse ==
    /\ world \in Form4Inputs \cup Inputs13F \cup FeedInputs
    /\ script \in (IF world.kind = "13f" THEN {"SEC-tracker"}
                   ELSE IF world.kind = "form4" THEN {"INSIDER-tracker"}
                   ELSE {"SEC-tracker", "INSIDER-tracker"})
    /\ driver = "parser"
    /\ connection = TRUE
    /\ db = EmptyDb
    /\ committed = EmptyDb
    /\ op = NoOp
    /\ run = NoRun
    /\ ret = NoRet
    /\ nops = 0
    /\ prev = NoPrev
    /\ faults = 0
    /\ batch = NoBatch

\* filing_info of the filing the document belongs to
FilingInfo == [accession_number |-> Acc1, filed_date |-> 1]

\* parsed_data = self.parse_form4_content(document_url, content, filing_info)
CallParseForm4 ==
    /\ driver = "parser" /\ world.kind = "form4" /\ Idle /\ nops = 0
    /\ ret' = [fn |-> "parse_form4_content", args |-> <<world.dialect>>,
               val |-> parse_form4_content(world.content, FilingInfo), err |-> "none"]
    /\ nops' = 1
    /\ UNCHANGED <<script, driver, batch, connection, world, db, committed, op, run, prev,
                   faults>>

\* if parsed_data and (parsed_data['transactions'] or parsed_data['holdings']):
\*     success = self.portfolio_manager.insert_insider_data(parsed_data)
StoreParsedForm4 ==
    /\ driver = "parser" /\ ret.fn = "parse_form4_content" /\ op = NoOp
    /\ op' = IF HasRecords(ret.val) THEN NewOpInsider(ret.val, "api") ELSE NoOp
    /\ nops' = nops + 1
    /\ ret' = NoRet
    /\ UNCHANGED <<script, driver, batch, connection, world, db, committed, run, prev, faults>>

\* report_date = datetime.strptime(filing_row['reportDate'], '%Y-%m-%d').date()
\* filed_date = datetime.strptime(filing_row['filingDate'], '%Y-%m-%d').date()
\* positions = self.parse_13f_xml(xml_url, filing_info)
\* A date that strptime does not convert raises ValueError: the except branch
\* of the loop over the filings goes on to the next filing.
CallParse13F(response_ok) ==
    /\ driver = "parser" /\ world.kind = "13f" /\ Idle /\ nops = 0
    /\ ret' = IF world.reportDate \in DOMAIN DateTexts /\ world.filingDate \in DOMAIN DateTexts
              THEN [fn |-> "parse_13f_xml",
                    args |-> <<DateTexts[world.reportDate], DateTexts[world.filingDate],
                               response_ok>>,
                    val |-> parse_13f_xml(response_ok, world.tables), err |-> "none"]
              ELSE [fn |-> "strptime", args |-> <<world.reportDate, world.filingDate>>,
                    val |-> None, err |-> "ValueError"]
    /\ nops' = 1
    /\ UNCHANGED <<script, driver, batch, connection, world, db, committed, op, run, prev,
                   faults>>

\* if positions: success = self.portfolio_manager.insert_complete_portfolio_data(...)
StoreParsed13F ==
    /\ driver = "parser" /\ ret.fn = "parse_13f_xml" /\ op = NoOp
    /\ op' = IF HasPositions(ret.val)
             THEN NewOp13F("separate",
                           PortfolioData("1001", "a", Acc1, ret.args[1], ret.args[2], ret.val),
                           "api")
             ELSE NoOp
    /\ nops' = nops + 1
    /\ ret' = NoRet
    /\ UNCHANGED <<script, driver, batch, connection, world, db, committed, run, prev, faults>>

\* the range of filing dates a caller asks for: each bound a date or None
Bounds == {None, 2}

\* filings_df = self.get_13f_filings(cik); the function takes the CIK alone,
\* whatever range [start_date, end_date] its caller has in mind
CallGet13F(response_ok, start_date, end_date) ==
    /\ driver = "parser" /\ world.kind = "feed" /\ script = "SEC-tracker"
    /\ Idle /\ nops = 0
    /\ ret' = [fn |-> "get_13f_filings", args |-> <<response_ok, start_date, end_date>>,
               val |-> get_13f_filings(response_ok, world.cik, world.recent),
               err |-> "none"]
    /\ nops' = 1
    /\ UNCHANGED <<script, driver, batch, connection, world, db, committed, op, run, prev,
                   faults>>

\* filings_df = self.get_form4_filings_by_cik(cik, start_date, end_date)
CallGetForm4(response_ok, start_date, end_date) ==
    /\ driver = "parser" /\ world.kind = "feed" /\ script = "INSIDER-tracker"
    /\ Idle /\ nops = 0
    /\ ret' = [fn |-> "get_form4_filings_by_cik",
               args |-> <<response_ok, start_date, end_date>>,
               val |-> get_form4_filings_by_cik(response_ok, world.cik, world.recent,
                                                start_date, end_date),
               err |-> "none"]
    /\ nops' = 1
    /\ UNCHANGED <<script, driver, batch, connection, world, db, committed, op, run, prev,
                   faults>>

\* the steps of the insert operation called for a parsed document
OpStepParsed ==
    \/ OpInsertInsider("none")
    \/ OpInsertCompany("none")
    \/ OpInsertInsiderFiling("none")
    \/ OpInsertTransaction("none")
    \/ OpInsertFund("none")
    \/ OpInsertFiling("none")
    \/ OpInsertSecurity("none")
    \/ OpInsertPosition("none")

NextParse ==
    \/ CallParseForm4
    \/ StoreParsedForm4
    \/ \E response_ok \in BOOLEAN : CallParse13F(response_ok)
    \/ StoreParsed13F
    \/ OpStepParsed
    \/ OpReturn
    \/ \E response_ok \in BOOLEAN, start_date \in Bounds, end_date \in Bounds :
           \/ CallGet13F(response_ok, start_date, end_date)
           \/ CallGetForm4(response_ok, start_date, end_date)

SpecParse == InitParse /\ [][NextParse]_vars

\* ------------------------------------------------ a second writer on the database
\* The scripts take no lock and the schema's UNIQUE keys are the only guard:
\* another process (a second run of a script) may commit a row between the
\* SELECT and the INSERT of an insert operation of this process.

\* another connection commits a row: it is durable at once
OtherWriter(s, table, row) == [s EXCEPT !.committed[table] = Append(@, row)]

\* an insert operation whose SELECT found no row for its key, after which another
\* writer committed a row with that key: the INSERT raises Error 1062 (duplicate
\* entry), the except branch rolls back and returns None
DuplicateKey(tracker, table, key, row, fn, args) ==
    /\ script = tracker /\ driver = "row_api" /\ connection /\ Idle /\ nops < MaxCalls
    /\ FetchOne(db[table], key) = None
    /\ Apply(Ret(Rollback(OtherWriter(st, table, row)), None), fn, args, "duplicate")
    /\ nops' = nops + 1
    /\ prev' = NoPrev
    /\ UNCHANGED <<script, driver, batch, connection, world, op, run>>

\* the six operations on tables with a natural key, each raced by another writer
RacedCall ==
    \/ \E cik \in CIKs, name \in Names, other \in Names :
           DuplicateKey("SEC-tracker", "funds", [cik |-> cik],
                        [cik |-> cik, name |-> other], "insert_fund", <<cik, name>>)
    \/ \E cusip \in CUSIPs, name \in Names, other \in Names :
           DuplicateKey("SEC-tracker", "securities", [cusip |-> cusip],
                        [cusip |-> cusip, name |-> other], "insert_security", <<cusip, name>>)
    \/ \E fund_id \in CallIds, acc \in Accessions, date \in Dates :
           /\ ForeignKey(db.funds, fund_id)
           /\ DuplicateKey("SEC-tracker", "filings", [accession_number |-> acc],
                           [accession_number |-> acc, fund_id |-> fund_id,
                            report_date |-> date, filed_date |-> date],
                           "insert_filing", <<fund_id, acc, date, date>>)
    \/ \E cik \in CIKs, name \in Names, other \in Names :
           DuplicateKey("INSIDER-tracker", "insiders", [cik |-> cik],
                        [cik |-> cik, name |-> other, title |-> NoneS,
                         is_director |-> FALSE, is_officer |-> FALSE,
                         is_ten_percent_owner |-> FALSE, is_other |-> FALSE],
                        "insert_insider", <<cik, name>>)
    \/ \E cik \in CIKs, name \in Names, other \in Names :
           DuplicateKey("INSIDER-tracker", "companies", [cik |-> cik],
                        [cik |-> cik, name |-> other, ticker |-> NoneS,
                         exchange |-> NoneS, sector |-> NoneS],
                        "insert_company", <<cik, name>>)
    \/ \E acc \in Accessions, insider_id \in CallIds, company_id \in CallIds, date \in Dates :
           /\ ForeignKey(db.insiders, insider_id) /\ ForeignKey(db.companies, company_id)
           /\ DuplicateKey("INSIDER-tracker", "insider_filings", [accession_number |-> acc],
                           [accession_number |-> acc, insider_id |-> insider_id,
                            company_id |-> company_id, filed_date |-> date],
                           "insert_insider_filing",
                           <<acc, insider_id, company_id, date>>)

\* a script calling the single-row operations while another writer is at work
InitRace ==
    /\ script \in {"SEC-tracker", "INSIDER-tracker"}
    /\ driver = "row_api"
    /\ connection = TRUE
    /\ world = NoWorld
    /\ db = EmptyDb
    /\ committed = EmptyDb
    /\ op = NoOp
    /\ run = NoRun
    /\ ret = NoRet
    /\ nops = 0
    /\ prev = NoPrev
    /\ faults = 0
    /\ batch = NoBatch

NextRace == CallInsert \/ RacedCall

SpecRace == InitRace /\ [][NextRace]_vars

\* ================================================================ properties

\* the id of the stored filing with accession number acc, of the stored
\* security with CUSIP c, and the position rows of a (filing, security) pair
FilingOf(d, acc) == FetchOne(d.filings, [accession_number |-> acc])
SecurityOf(d, c) == FetchOne(d.securities, [cusip |-> c])
PositionsOf(d, fid, sid) ==
    Ids(d.positions, [filing_id |-> fid, security_id |-> sid])

\* a 13F insert operation has gone through a filing that was not stored
\* when it started, and nothing failed in it
Ingested13F ==
    Is13F(op) /\ op.stage = "return" /\ op.fresh /\ OpClean(op)

C3_ReingestionNoOp ==
    (op.kind # "none" /\ ~op.fresh) =>
        /\ committed.filings = op.before.filings
        /\ committed.insider_filings = op.before.insider_filings
        /\ committed.positions = op.before.positions
        /\ committed.insider_transactions = op.before.insider_transactions
        /\ committed.insider_holdings = op.before.insider_holdings

\* the accession number the run is at, and whether it is stored
RunAccession == run.filings[run.idx].accessionNumber
RunStored ==
    IF run.kind = "13f" THEN ~UniqueFiling(db, RunAccession)
    ELSE ~UniqueInsiderFiling(db, RunAccession)

\* what a run has done for its current filing starts with the existence check
CheckFirst ==
    (run.kind # "none" /\ run.trace # << >>) =>
        /\ run.trace[1] = "check"
        /\ \A k \in 2..Len(run.trace) : run.trace[k] # "check"

\* a filing is fetched, and an insert operation runs for the downloader, only
\* after the existence check of that filing
FetchAfterCheck ==
    /\ (run.kind # "none" /\ run.stage \in {"fetch", "insert"}) =>
           run.trace # << >> /\ run.trace[1] = "check"
    /\ (op.kind # "none" /\ op.caller = "run") =>
           run.kind # "none" /\ run.stage = "insert"

\* a step in which the existence query answers for a stored accession number:
\* the run goes to its next filing or to its return, nothing is fetched,
\* parsed or inserted
SkipStored ==
    (/\ run.kind # "none" /\ run.stage = "check" /\ RunStored
     /\ connection /\ run'.kind # "none" /\ faults' = faults)
    => /\ run' = Advance([run EXCEPT !.trace = <<"check">>])
       /\ run'.stage \in {"check", "return"}
       /\ op' = NoOp /\ db' = db /\ committed' = committed
       /\ run'.successful_filings = run.successful_filings

NoDuplicate(t, key) ==
    \A i, j \in 1..Len(t) : t[i][key] = t[j][key] => i = j

\* the table and the natural key of the six keyed insert operations, and the
\* position of the key in the arguments of the call
Keyed ==
    [insert_fund |-> [table |-> "funds", key |-> "cik", arg |-> 1],
     insert_security |-> [table |-> "securities", key |-> "cusip", arg |-> 1],
     insert_filing |-> [table |-> "filings", key |-> "accession_number", arg |-> 2],
     insert_insider |-> [table |-> "insiders", key |-> "cik", arg |-> 1],
     insert_company |-> [table |-> "companies", key |-> "cik", arg |-> 1],
     insert_insider_filing |->
         [table |-> "insider_filings", key |-> "accession_number", arg |-> 1]]

\* a step that calls a keyed insert operation, with a connection and without a
\* database error, on a key that is stored: the call returns the id of the
\* stored row and the store is as before
ReturnsExisting ==
    \A fn \in DOMAIN Keyed :
        LET k == Keyed[fn]
            ids == {i \in 1..Len(db[k.table]) : db[k.table][i][k.key] = ret'.args[k.arg]}
        IN  (/\ ret'.fn = fn /\ ret'.err = "none" /\ connection
             /\ ids # {})
            => /\ ret'.val \in ids
               /\ db' = db /\ committed' = committed

\* C5 - natural-key dedup.  After any sequence of calls of insert_fund,
\* insert_security, insert_filing, insert_insider, insert_company and
\* insert_insider_filing every table holds at most one row per natural key
\* (cik, cusip, accession_number), and a call (one that no database error
\* hits) with a key that is stored returns the id of the stored row and
\* creates no row.
C5_NaturalKeyDedup ==
    /\ [](\A fn \in DOMAIN Keyed :
              /\ NoDuplicate(db[Keyed[fn].table], Keyed[fn].key)
              /\ NoDuplicate(committed[Keyed[fn].table], Keyed[fn].key))
    /\ [][ReturnsExisting]_vars

\* C5 happens: a direct call of insert_filing with a stored accession number,
\* another fund and another date has returned the id of the stored filing
C5_Witness ==
    /\ driver = "row_api" /\ ret.fn = "insert_filing" /\ ret.err = "none"
    /\ ret.val # None
    /\ db.filings[ret.val].accession_number = ret.args[2]
    /\ db.filings[ret.val].fund_id # ret.args[1]
    /\ db.filings[ret.val].report_date # ret.args[3]

\* every reference of a stored row of store d is the id of a stored row
Referential(d) ==
    /\ \A i \in 1..Len(d.filings) : d.filings[i].fund_id \in 1..Len(d.funds)
    /\ \A i \in 1..Len(d.positions) :
           /\ d.positions[i].filing_id \in 1..Len(d.filings)
           /\ d.positions[i].security_id \in 1..Len(d.securities)
    /\ \A i \in 1..Len(d.insider_filings) :
           /\ d.insider_filings[i].insider_id \in 1..Len(d.insiders)
           /\ d.insider_filings[i].company_id \in 1..Len(d.companies)
    /\ \A i \in 1..Len(d.insider_transactions) :
           d.insider_transactions[i].filing_id \in 1..Len(d.insider_filings)
    /\ \A i \in 1..Len(d.insider_holdings) :
           d.insider_holdings[i].filing_id \in 1..Len(d.insider_filings)

\* a filing-level insert operation is at its filing row only with its parent
\* rows resolved, and at its child rows only with its filing row resolved
ParentsFirst ==
    /\ (Is13F(op) /\ op.stage = "filing") =>
           /\ op.fund_id \in 1..Len(committed.funds)
           /\ committed.funds[op.fund_id].cik = op.data.fund.cik
    /\ (Is13F(op) /\ op.stage \in {"security", "position"}) =>
           /\ op.fund_id \in 1..Len(committed.funds)
           /\ op.filing_id \in 1..Len(committed.filings)
           /\ committed.filings[op.filing_id].accession_number
                  = op.data.filing.accession_number
    /\ (op.kind = "insider" /\ op.stage = "company") =>
           op.insider_id \in 1..Len(committed.insiders)
    /\ (op.kind = "insider" /\ op.stage = "filing") =>
           /\ op.insider_id \in 1..Len(committed.insiders)
           /\ op.company_id \in 1..Len(committed.companies)
    /\ (op.kind = "insider" /\ op.stage \in {"transaction", "holding"}) =>
           /\ op.filing_id \in 1..Len(committed.insider_filings)
           /\ committed.insider_filings[op.filing_id].accession_number
                  = op.data.filing_info.accession_number
    /\ (op.kind # "none" /\ op.stage \in {"fund", "insider"}) => committed = op.before

\* C6 - dependent insert ordering and referential integrity.  In a complete
\* insert operation the parent reference rows are resolved before the filing
\* row and the filing row before any child row, and in every reachable state,
\* also after a failure or an interruption at any step, every position refers
\* to a stored filing and a stored security, every filing to a stored fund,
\* and every insider transaction or holding to a stored insider filing whose
\* insider and company are stored.
C6_ReferentialIntegrity ==
    Referential(db) /\ Referential(committed) /\ ParentsFirst

\* C6 happens: a Form 4 run was interrupted after the first of the two
\* transactions of a filing, and the rows it left refer to stored rows
C6_Witness ==
    /\ script = "INSIDER-tracker" /\ driver = "downloader"
    /\ Idle /\ nops = 1 /\ prev = NoPrev /\ faults > 0
    /\ Len(world.docs[Acc1].transactions) = 2
    /\ Len(committed.insider_filings) = 1
    /\ Len(committed.insider_transactions) = 1
    /\ committed.insider_transactions[1].filing_id = 1

\* a filing-level insert operation is over, and whether it stored a child row
Returned == op.kind # "none" /\ op.stage = "return"
ChildStored == op.stored # {} \/ (op.kind = "insider" /\ op.stored_h # {})

\* a parent row of the operation was not stored or resolved: a parent insert
\* returned None, or insert_insider_data had no insider or issuer to resolve
ParentFailed ==
    op.parent_failed \/ (op.kind = "insider" /\ op.info_missing)

\* C7 - filing-level result.  A filing-level insert operation returns success
\* if at least one child row was inserted, and it returns failure only if the
\* insert or resolve of a parent row (fund, insider, company, filing) failed.
C7_FilingLevelResult ==
    Returned =>
        /\ ChildStored => op.result
        /\ ~op.result => ParentFailed

\* the rows that table t of the durable store has gained since operation op
\* started, all of them rows of filing fid
GainedFor(t, fid) ==
    {i \in (Len(op.before[t]) + 1)..Len(committed[t]) : committed[t][i].filing_id = fid}

\* C8 - partial-failure tolerance.  When the insert of a child row (security,
\* position, transaction, holding) fails in a filing-level insert, every
\* later child row of the filing is still attempted (the loop has gone
\* through rows 1..i-1 when it is at row i, and through all of them when the
\* operation returns after its parents were stored), and every row whose own
\* insert succeeded is stored.
C8_PartialFailureTolerance ==
    /\ (Is13F(op) /\ op.stage \in {"security", "position"}) =>
           op.attempted = 1..(op.i - 1)
    /\ (op.kind = "insider" /\ op.stage = "transaction") =>
           op.attempted = 1..(op.i - 1)
    /\ (op.kind = "insider" /\ op.stage = "holding") =>
           /\ op.attempted = 1..Len(op.data.transactions)
           /\ op.attempted_h = 1..(op.i - 1)
    /\ (Returned /\ Is13F(op) /\ ~op.parent_failed) =>
           /\ op.attempted = 1..Len(Items(op))
           /\ \A i \in op.stored :
                  PositionsOf(committed, op.filing_id,
                              SecurityOf(committed, Items(op)[i].security.cusip)) # {}
    /\ (Returned /\ op.kind = "insider" /\ ~op.parent_failed /\ ~op.info_missing) =>
           /\ op.attempted = 1..Len(op.data.transactions)
           /\ op.attempted_h = 1..Len(op.data.holdings)
           /\ Cardinality(GainedFor("insider_transactions", op.filing_id))
                  = Cardinality(op.stored)
           /\ Cardinality(GainedFor("insider_holdings", op.filing_id))
                  = Cardinality(op.stored_h)

\* C8 happens: the insert of a child row has failed and a later child row of
\* the same filing is stored
C8_Witness ==
    /\ Returned /\ ~op.parent_failed
    /\ \E i \in op.attempted \ op.stored : \E j \in op.stored : i < j

\* the table that each single-row insert operation writes
TableOf ==
    [insert_fund |-> "funds", insert_security |-> "securities",
     insert_filing |-> "filings", insert_position |-> "positions",
     insert_insider |-> "insiders", insert_company |-> "companies",
     insert_insider_filing |-> "insider_filings",
     insert_insider_transaction |-> "insider_transactions",
     insert_insider_holding |-> "insider_holdings"]

\* C9 - independent commits.  Every insert is committed on its own as soon as
\* it has executed: between two steps nothing is written and not committed,
\* and the row whose id a single-row insert has returned is durable.  An
\* interruption at any point therefore leaves every row inserted before it,
\* and a filing row can exist with none or only some of its child rows.
C9_IndependentCommits ==
    /\ db = committed
    /\ (ret.fn # "none" /\ ret.val # None) =>
           ret.val \in 1..Len(committed[TableOf[ret.fn]])

\* C9 happens: a 13F run was interrupted in a filing of two securities after
\* the first position: the filing row is stored with one of its two positions
C9_Witness ==
    /\ script = "SEC-tracker" /\ driver = "downloader"
    /\ Idle /\ nops = 1 /\ prev = NoPrev /\ faults > 0
    /\ world.docs[Acc1] = <<RowA, RowC>>
    /\ Len(committed.filings) = 1 /\ committed.filings[1].accession_number = Acc1
    /\ Len(committed.positions) = 1

\* the document of accession number a holds no child record
DocEmpty(a) ==
    IF script = "SEC-tracker" THEN world.docs[a] = << >>
    ELSE world.docs[a].transactions = << >> /\ extract_holdings(world.docs[a]) = << >>

\* the filings among the first n of the run whose document holds a child record
WithRecords(n) ==
    {k \in 1..n : k <= Len(run.filings) /\ ~DocEmpty(run.filings[k].accessionNumber)}

\* C10 - no-children short-circuit.  When the parser extracts no child record
\* for a filing (13F: no position; Form 4: no transaction and no holding) the
\* downloader calls no insert operation for it: no filing row is stored for
\* its accession number, a run over such filings only leaves the store as it
\* was, and the filing is not counted in successful_filings.
C10_NoChildrenShortCircuit ==
    driver = "downloader" =>
        /\ Is13F(op) => ~DocEmpty(op.data.filing.accession_number)
        /\ op.kind = "insider" => ~DocEmpty(op.data.filing_info.accession_number)
        /\ \A a \in Accessions :
               DocEmpty(a) => UniqueFiling(committed, a) /\ UniqueInsiderFiling(committed, a)
        /\ (run.kind # "none" /\ run.stage # "list") =>
               /\ run.successful_filings <= Cardinality(WithRecords(run.idx))
               /\ WithRecords(Len(run.filings)) = {} => committed = run.before

\* C10 happens: a run over one filing has fetched and parsed its document,
\* which holds no child record, and returns False with an empty store
C10_Witness ==
    /\ run.kind # "none" /\ run.stage = "return" /\ Len(run.filings) = 1
    /\ DocEmpty(RunAccession)
    /\ run.trace \in {<<"check", "index", "document">>, <<"check", "document", "parse">>}
    /\ ~run.result /\ committed = EmptyDb

\* the accession numbers of the filing rows in the durable store
StoredAccessions ==
    {r.accession_number : r \in Range(committed.filings) \cup Range(committed.insider_filings)}

\* the downloads were called for the CIKs of the list, in list order
InListOrder ==
    batch.kind # "none" =>
        /\ Len(batch.called) <= Len(batch.ciks)
        /\ batch.called = SubSeq(batch.ciks, 1, Len(batch.called))

\* the batch returns a dictionary with an entry for every CIK of the list
EveryCikHasResult ==
    batch.kind # "none" /\ batch.stage = "return" =>
        /\ batch.called = batch.ciks
        /\ DOMAIN batch.results = Range(batch.ciks)
        /\ \A c \in DOMAIN batch.results : batch.results[c] \in BOOLEAN

\* a run returns only after the last filing of its list was processed
EveryFilingProcessed ==
    run.kind # "none" /\ run.stage = "return" /\ run.filings # << >> =>
        run.idx = Len(run.filings)

\* C11 - batch continuation.  download_multiple_funds and
\* download_multiple_insider_data call the download for the CIKs of their list in
\* list order; whatever fails for an entity (its requests, its documents, the
\* database) the loop goes on, and unless the process is killed the batch reaches
\* its return with a result entry for every CIK of the list.  Inside one entity
\* the run goes through every filing of its list, whatever failed for an earlier
\* filing.
C11_BatchContinuation ==
    /\ [](InListOrder /\ EveryCikHasResult /\ EveryFilingProcessed)
    /\ (batch.kind # "none" ~> (batch = NoBatch \/ batch.stage = "return"))

\* a batch over two CIKs returns after a failure for the first filing of the
\* first CIK: the second filing of that CIK is stored, and both CIKs have an entry
C11_Witness ==
    /\ batch.kind # "none" /\ batch.stage = "return"
    /\ batch.ciks = <<"1001", "1002">> /\ faults = 1 /\ connection
    /\ batch.results = [c \in {"1001", "1002"} |-> c = "1001"]
    /\ StoredAccessions = {Acc2}
    /\ \A a \in Accessions : ~DocEmpty(a)

\* what parse_form4_content extracts from the document of world written in dialect d
ParsedIn(d) == parse_form4_content(Form4Soup(d, world.doc), FilingInfo)

\* C12 - tag-dialect tolerance.  Whatever dialect (camelCase, kebab-case,
\* upper-kebab) a Form 4 document is written in, every tag of it included,
\* parse_form4_content returns the insider info, the issuer info and the
\* transaction records it returns for the same document in the other dialects.
C12_TagDialectTolerance ==
    ret.fn = "parse_form4_content" /\ world.content # NoContent =>
        \A d \in Dialects :
            /\ ret.val.insider_info = ParsedIn(d).insider_info
            /\ ret.val.issuer_info = ParsedIn(d).issuer_info
            /\ ret.val.transactions = ParsedIn(d).transactions

\* the transactions of the document of world in the order of its tables
DocTxns ==
    SelectSeq(world.doc.txns, LAMBDA t : t.table = "nonDerivativeTable")
    \o SelectSeq(world.doc.txns, LAMBDA t : t.table = "derivativeTable")

\* the number a numeric text stands for (in hundredths), 0 for any other text
NumberOrZero(text) == IF text \in DOMAIN FloatTexts THEN FloatTexts[text] ELSE 0

\* record (a parsed record or a stored row) carries the texts of transaction t,
\* with 0 for every numeric text that is no number
Coerced(record, t) ==
    /\ record.transaction_shares = NumberOrZero(t.shares)
    /\ record.transaction_price = NumberOrZero(t.price)
    /\ record.shares_owned_after = NumberOrZero(t.owned)
    /\ record.security_title = t.title
    /\ record.transaction_code = t.code
    /\ record.direct_indirect = t.ownership
    /\ record.is_derivative = (t.table = "derivativeTable")

\* records has one record for every transaction of the document, in order
AllCoerced(records) ==
    /\ Len(records) = Len(DocTxns)
    /\ \A k \in 1..Len(DocTxns) : Coerced(records[k], DocTxns[k])

\* C13 - Form 4 numeric coercion.  For a document with the transactionShares,
\* transactionPricePerShare and sharesOwnedFollowingTransaction elements, a text
\* of one of them that is no number gives 0 in that field of the transaction
\* record and leaves every other field as written; no record is dropped by the
\* parser, and when the document names its reporting owner and issuer every
\* record is stored as a row with the same values.
C13_Form4NumericCoercion ==
    world.kind = "form4" /\ world.dialect = "camelCase" /\ world.content # NoContent =>
        /\ ret.fn = "parse_form4_content" => AllCoerced(ret.val.transactions)
        /\ op.kind = "insider" => AllCoerced(op.data.transactions)
        /\ op.kind = "insider" /\ op.stage = "return" /\ world.doc.owner =>
               /\ op.result
               /\ AllCoerced(committed.insider_transactions)

\* a transaction whose shares text is no number is stored with 0 shares and
\* with its price
C13_Witness ==
    /\ world.kind = "form4" /\ world.dialect = "camelCase"
    /\ op.kind = "insider" /\ op.stage = "return"
    /\ Len(DocTxns) = 2 /\ DocTxns[2].shares = "N/A"
    /\ Len(committed.insider_transactions) = 2
    /\ committed.insider_transactions[2].transaction_shares = 0
    /\ committed.insider_transactions[2].transaction_price = 5025

\* the integer a text stands for, 0 for any other text
IntegerOrZero(text) == IF text \in DOMAIN IntTexts THEN IntTexts[text] ELSE 0

\* C14 - 13F numeric coercion.  When the document is fetched, parse_13f_xml
\* returns one position for every infotable row, in order; a value or share
\* amount text that is no number gives 0 in that field and the row is kept.
C14_13FNumericCoercion ==
    ret.fn = "parse_13f_xml" /\ ret.args[3] =>
        /\ Len(ret.val) = Len(world.tables)
        /\ \A k \in 1..Len(world.tables) :
               /\ ret.val[k].security.cusip = world.tables[k].cusip
               /\ ret.val[k].position.value = IntegerOrZero(world.tables[k].value)
               /\ ret.val[k].position.shares = IntegerOrZero(world.tables[k].sshprnamt)

\* the date a text in the form YYYY-MM-DD stands for, None for any other text
DateValueOrNone(text) == IF text \in DOMAIN DateTexts THEN DateTexts[text] ELSE None

\* records has one record for every transaction of the document, with the date
\* of its text or None
AllDated(records) ==
    /\ Len(records) = Len(DocTxns)
    /\ \A k \in 1..Len(DocTxns) :
           records[k].transaction_date = DateValueOrNone(DocTxns[k].date)

\* Form 4: the transaction date that does not parse is None in the record, and
\* the record is returned and stored
Form4DateCoercion ==
    world.kind = "form4" /\ world.dialect = "camelCase" /\ world.content # NoContent =>
        /\ ret.fn = "parse_form4_content" => AllDated(ret.val.transactions)
        /\ op.kind = "insider" /\ op.stage = "return" /\ world.doc.owner =>
               op.result /\ AllDated(committed.insider_transactions)

\* 13F: the report date and the filed date that do not parse are None, and the
\* filing goes on to the parser with them
DateCoercion13F ==
    world.kind = "13f" /\ nops = 1 =>
        /\ ret.fn = "parse_13f_xml"
        /\ ret.args[1] = DateValueOrNone(world.reportDate)
        /\ ret.args[2] = DateValueOrNone(world.filingDate)

\* C15 - date coercion.  A date text that is not in the form YYYY-MM-DD becomes
\* None, raises nothing, and the record that carries it is kept and ingested:
\* the transaction of a Form 4 document with its transaction date, and the 13F
\* filing with its report date and its filed date.
C15_DateCoercion == Form4DateCoercion /\ DateCoercion13F

\* C16 - parser output contract.  Whatever the content, parse_form4_content
\* returns a structure with the keys insider_info, issuer_info, transactions,
\* holdings and filing_info, the two infos dictionaries and the two collections
\* lists; whatever the document and whether or not its request succeeds,
\* parse_13f_xml returns a list of positions.  Neither call raises, and when
\* nothing can be parsed (unreadable content, failed request) the
\* dictionaries and lists are empty.
C16_ParserOutputContract ==
    /\ ret.fn = "parse_form4_content" =>
           /\ ret.err = "none"
           /\ DOMAIN ret.val =
                  {"insider_info", "issuer_info", "transactions", "holdings", "filing_info"}
           /\ DOMAIN ret.val.insider_info \subseteq {"cik", "name", "relationship"}
           /\ DOMAIN ret.val.issuer_info \subseteq {"cik", "name", "ticker"}
           /\ DOMAIN ret.val.transactions = 1..Len(ret.val.transactions)
           /\ DOMAIN ret.val.holdings = 1..Len(ret.val.holdings)
           /\ ret.val.filing_info = FilingInfo
           /\ world.content = NoContent =>
                  /\ ret.val.insider_info = EmptyDict /\ ret.val.issuer_info = EmptyDict
                  /\ ret.val.transactions = << >> /\ ret.val.holdings = << >>
    /\ ret.fn = "parse_13f_xml" =>
           /\ ret.err = "none"
           /\ DOMAIN ret.val = 1..Len(ret.val)
           /\ \A k \in DOMAIN ret.val : DOMAIN ret.val[k] = {"security", "position"}
           /\ ~ret.args[3] => ret.val = << >>

\* parse_form4_content was called with content that cannot be read
C16_Witness ==
    /\ ret.fn = "parse_form4_content" /\ world.content = NoContent
    /\ ret.val.transactions = << >>

\* the entries of the feed of world with the form, filed from start_date to
\* end_date (each bound included, None for no bound), in feed order
Wanted(form, start_date, end_date) ==
    SelectSeq(world.recent,
              LAMBDA e : /\ e.form = form
                         /\ start_date # None => DateTexts[e.filingDate] >= start_date
                         /\ end_date # None => DateTexts[e.filingDate] <= end_date)

\* the fetcher that was called returned one record for every wanted entry, in
\* feed order, and no other record
ReturnsWanted(form) ==
    LET want == Wanted(form, ret.args[2], ret.args[3])
    IN  /\ Len(ret.val) = Len(want)
        /\ \A k \in 1..Len(want) :
               /\ ret.val[k].form = form
               /\ ret.val[k].accessionNumber = want[k].accessionNumber
               /\ ret.val[k].reportDate = want[k].reportDate

\* the Form 4 fetcher filters on the form and on the range of filing dates
Form4IndexFilter ==
    ret.fn = "get_form4_filings_by_cik" /\ ret.args[1] => ReturnsWanted("4")

\* the 13F fetcher filters on the form and on the range of filing dates
IndexFilter13F ==
    ret.fn = "get_13f_filings" /\ ret.args[1] => ReturnsWanted("13F-HR")

\* C17 - filing index filter.  When the feed is read, the fetcher returns one
\* record for every entry of filings.recent whose form is the requested one
\* ('13F-HR' or '4') and whose filing date is in the requested range
\* [start_date, end_date] (bounds included, each bound optional), in feed order,
\* and nothing else; the range can be asked for with both forms.
C17_FilingIndexFilter == Form4IndexFilter /\ IndexFilter13F

\* the records a fetcher returned in this state
Fetched == IF ret.fn \in {"get_13f_filings", "get_form4_filings_by_cik"} THEN ret.val ELSE << >>

\* C18 - URL derivation.  In every record a fetcher returns the undashed
\* accession number is the dashed one without its '-' characters, all of them,
\* and the URL is https://www.sec.gov/Archives/edgar/data/{cik}/{undashed}/
\* {dashed}{suffix} with the CIK as a number and the suffix of the fetcher
\* (-index.html for 13F, .txt for Form 4); records with the same accession
\* number have the same URL.
C18_UrlDerivation ==
    /\ \A k \in 1..Len(Fetched) :
           LET r == Fetched[k]
               suffix == IF ret.fn = "get_13f_filings" THEN "-index.html" ELSE ".txt"
           IN  /\ r.accession_withdash = r.accessionNumber
               /\ \A j \in 1..Len(r.accession_nodash) : r.accession_nodash[j] # "-"
               /\ r.accession_nodash = SelectSeq(r.accessionNumber, LAMBDA c : c # "-")
               /\ r.url = <<"https://www.sec.gov", "/Archives/edgar/data/", CikInt[world.cik],
                            "/">> \o r.accession_nodash \o <<"/">> \o r.accession_withdash
                           \o <<suffix>>
    /\ \A k \in 1..Len(Fetched), j \in 1..Len(Fetched) :
           Fetched[k].accessionNumber = Fetched[j].accessionNumber
               => Fetched[k].url = Fetched[j].url

\* two filings of the CIK written 0001002 were returned, with two accession numbers
C18_Witness ==
    /\ ret.fn = "get_form4_filings_by_cik" /\ world.cik = "0001002"
    /\ Len(Fetched) = 2 /\ Fetched[1].accessionNumber # Fetched[2].accessionNumber
    /\ Fetched[1].accession_nodash = <<"1", "2", "4", "7">>
    /\ Fetched[1].url[3] = "1002"

\* the form a fetcher asks for
RequestedForm == IF ret.fn = "get_13f_filings" THEN "13F-HR" ELSE "4"

\* the feed of the entity holds no filing of the form
ZeroFilings(form) == \A k \in 1..Len(world.recent) : world.recent[k].form # form

\* C19 - Fetcher failure is recoverable.  get_13f_filings and
\* get_form4_filings_by_cik never raise; they return an empty result when the
\* request or the parse of the feed fails and when the entity has no filing of
\* the requested form; and a call of a fetcher leaves the stored data, in the
\* connection and on disk, as it was.
C19_FetcherFailureRecoverable ==
    /\ [](ret.fn \in {"get_13f_filings", "get_form4_filings_by_cik"}
            => /\ ret.err = "none"
               /\ (~ret.args[1] \/ ZeroFilings(RequestedForm)) => ret.val = << >>)
    /\ [][ret'.fn \in {"get_13f_filings", "get_form4_filings_by_cik"} /\ ret' # ret
            => db' = db /\ committed' = committed]_vars

\* the request failed for an entity whose feed holds a filing of the form, and
\* the fetcher returned the empty result
C19_Witness ==
    /\ ret.fn = "get_form4_filings_by_cik" /\ ret.err = "none"
    /\ ~ret.args[1] /\ ~ZeroFilings("4")
    /\ ret.val = << >>

\* the table and the natural key of the row a call of one of the six operations is about
KeyTable ==
    [insert_fund |-> "funds", insert_security |-> "securities", insert_filing |-> "filings",
     insert_insider |-> "insiders", insert_company |-> "companies",
     insert_insider_filing |-> "insider_filings"]

KeyOfCall ==
    IF ret.fn \in {"insert_fund", "insert_insider", "insert_company"} THEN [cik |-> ret.args[1]]
    ELSE IF ret.fn = "insert_security" THEN [cusip |-> ret.args[1]]
    ELSE IF ret.fn = "insert_filing" THEN [accession_number |-> ret.args[2]]
    ELSE [accession_number |-> ret.args[1]]

\* C20 - Integrity errors are not failures.  When the INSERT of a fund,
\* security, filing, insider, company or insider filing hits a duplicate-key
\* error, because another writer stored the key after the operation's SELECT,
\* the operation returns the id of the row that is stored under the key, not
\* the failure value None.
C20_IntegrityErrorsNotFailures ==
    (ret.fn \in DOMAIN KeyTable /\ ret.err = "duplicate")
        => /\ ret.val # None
           /\ ret.val = FetchOne(db[KeyTable[ret.fn]], KeyOfCall)

\* the tables of the store
Tables == DOMAIN EmptyDb

\* what identifies a stored row apart from its id: its natural key, or the
\* filing it belongs to
RowKey(t, row) ==
    IF t \in {"funds", "insiders", "companies"} THEN <<row.cik>>
    ELSE IF t = "securities" THEN <<row.cusip>>
    ELSE IF t \in {"filings", "insider_filings"} THEN <<row.accession_number>>
    ELSE IF t = "positions" THEN <<row.filing_id, row.security_id>>
    ELSE <<row.filing_id>>

\* C21 - No deletion by the pipeline.  No step of an insert operation, of a
\* filing-level operation or of a downloader run, failed and rolled back or not,
\* and no interruption removes a committed row: every table of the durable
\* store keeps its length or grows, and every committed row stays under its id
\* with its key.
C21_NoDeletion ==
    [][\A t \in Tables :
          /\ Len(committed'[t]) >= Len(committed[t])
          /\ \A i \in 1..Len(committed[t]) :
                 RowKey(t, committed'[t][i]) = RowKey(t, committed[t][i])]_vars

\* an insert failed and was rolled back in a run that had stored a filing and a
\* position before
C21_Witness ==
    /\ run.kind = "13f" /\ ret.fn \in {"insert_security", "insert_position"}
    /\ ret.err = "write" /\ ret.val = None
    /\ Len(committed.filings) = 1 /\ Len(committed.positions) = 1

\* the store a call returned
StoreOf(r) == [db |-> r.db, committed |-> r.committed]

\* the loop over the child rows of a 13F operation when no insert fails
RECURSIVE InsertItems(_, _, _)
InsertItems(s, filing_id, items) ==
    IF items = << >> THEN s
    ELSE LET row == Head(items)
             sec == insert_security(s, TRUE, row.security.cusip, row.security.name, "none")
             pos == insert_position(StoreOf(sec), TRUE, filing_id, sec.ret,
                                    row.position.value, row.position.shares,
                                    row.position.share_type,
                                    row.position.investment_discretion,
                                    row.position.voting_authority, "none")
         IN  InsertItems(StoreOf(pos), filing_id, Tail(items))

\* the durable store in which the operation of mode `kind` ends when it is
\* called with `data` on store d and no insert fails
FinalStore(kind, d, data) ==
    LET fund == insert_fund([db |-> d, committed |-> d], TRUE, data.fund.cik,
                            data.fund.name, "none")
        filing == insert_filing(StoreOf(fund), TRUE, fund.ret, data.filing.accession_number,
                                data.filing.report_date, data.filing.filed_date, "none")
    IN  InsertItems(StoreOf(filing), filing.ret,
                    IF kind = "aggregated" THEN Aggregate(data.positions)
                    ELSE data.positions).committed

\* a 13F operation is at its return and none of its inserts failed
Finished13F(o) ==
    /\ Is13F(o) /\ o.stage = "return"
    /\ connection /\ ~o.parent_failed
    /\ o.attempted = 1..Len(Items(o)) /\ o.stored = o.attempted

OtherMode(kind) == IF kind = "separate" THEN "aggregated" ELSE "separate"

ChildRows(d, acc) ==
    LET fid == FilingOf(d, acc)
        iid == FetchOne(d.insider_filings, [accession_number |-> acc])
    IN  [positions |-> SelectSeq(d.positions, LAMBDA p : p.filing_id = fid),
         transactions |-> SelectSeq(d.insider_transactions, LAMBDA t : t.filing_id = iid),
         holdings |-> SelectSeq(d.insider_holdings, LAMBDA h : h.filing_id = iid)]

\* the number of child rows the document of acc reports: one position per
\* CUSIP, one transaction per record
Reported(acc) ==
    IF script = "SEC-tracker" THEN Len(CusipOrder(world.docs[acc]))
    ELSE Len(world.docs[acc].transactions)

\* in d the filing row of acc is stored and child rows of it are missing
PartialFiling(d, acc) ==
    /\ FilingOf(d, acc) # None
       \/ FetchOne(d.insider_filings, [accession_number |-> acc]) # None
    /\ Len(ChildRows(d, acc).positions) + Len(ChildRows(d, acc).transactions)
           < Reported(acc)

Fixed(t, row) == IF t = "positions" THEN [row EXCEPT !.value = 0, !.shares = 0] ELSE row

\* every row of store d is in store e under its id, equal in every field but
\* value and shares of a position
RowsKept(d, e) ==
    \A t \in Tables :
        \A i \in 1..Len(d[t]) :
            i <= Len(e[t]) /\ Fixed(t, e[t][i]) = Fixed(t, d[t][i])

\* C24 - Only positions are updated in place.  No step changes a field of a
\* stored row of funds, securities, filings, insiders, companies,
\* insider_filings, insider_transactions or insider_holdings, also not a
\* repeated insert with the same natural key and other values; of a stored
\* position only value and shares ever change, its share_type,
\* investment_discretion and voting_authority stay as first written.
C24_OnlyPositionsUpdated ==
    [][RowsKept(committed, committed') /\ RowsKept(db, db')]_vars

\* insert_security was called with a stored CUSIP and another name, and the
\* stored row has the name it was first written with
C24_Witness ==
    /\ ret.fn = "insert_security" /\ ret.err = "none" /\ ret.val # None
    /\ committed.securities[ret.val].cusip = ret.args[1]
    /\ committed.securities[ret.val].name # ret.args[2]

\* insert_insider_data has gone through a filing that was not stored when it
\* started, and nothing failed in it
IngestedForm4 ==
    /\ op.kind = "insider" /\ op.stage = "return" /\ op.fresh /\ OpClean(op) /\ op.result

\* the rows of insider_transactions of filing fid, in insertion order
TransactionsOf(d, fid) == SelectSeq(d.insider_transactions, LAMBDA t : t.filing_id = fid)

\* C25 - No dedup of insider transactions.  After one ingestion of a Form 4
\* filing by insert_insider_data with K transaction records and no failed
\* insert, the filing has exactly K rows in insider_transactions, the k-th row
\* carrying the values of the k-th record, also when records are equal in
\* every field.
C25_NoTransactionDedup ==
    IngestedForm4 =>
        LET rows == TransactionsOf(committed, op.filing_id)
            records == op.data.transactions
        IN  /\ Len(rows) = Len(records)
            /\ \A k \in 1..Len(records) :
                   [f \in DOMAIN records[k] |-> rows[k][f]] = records[k]

\* a filing with two transaction records equal in every field was ingested and
\* has two rows
C25_Witness ==
    /\ IngestedForm4
    /\ op.data.transactions = <<TxS, TxS>>
    /\ Len(TransactionsOf(committed, op.filing_id)) = 2

\* the holding records the document of world reports (shares in hundredths)
DocHoldings ==
    [k \in 1..Len(world.doc.holdings) |->
        [security_title |-> world.doc.holdings[k].title,
         shares_owned |-> NumberOrZero(world.doc.holdings[k].owned),
         direct_indirect |-> world.doc.holdings[k].ownership,
         is_derivative |-> FALSE]]

\* C26 - Holdings are extracted and stored.  For a Form 4 document with
\* holding line items the parser returns one holding record per line item
\* (security_title, shares_owned, direct_indirect, is_derivative); and a
\* document with holdings and without transactions is ingested: the insert
\* operation is called for it and stores one insider_holdings row per line item.
C26_HoldingsExtracted ==
    /\ (ret.fn = "parse_form4_content" /\ world.content # NoContent
            /\ world.dialect = "camelCase")
           => ret.val.holdings = DocHoldings
    /\ (/\ world.kind = "form4" /\ world.content # NoContent
        /\ world.dialect = "camelCase" /\ world.doc.owner
        /\ world.doc.txns = << >> /\ world.doc.holdings # << >>
        /\ nops >= 2)
           => \/ op.kind = "insider" /\ op.stage # "return"
              \/ Len(committed.insider_holdings) = Len(world.doc.holdings)

\* the nine single-row insert operations
InsertOps ==
    DOMAIN Keyed \cup {"insert_position", "insert_insider_transaction", "insert_insider_holding"}

\* C27 - Failed insert leaves the store unchanged.  A call of one of the nine
\* single-row insert operations that fails returns None, and after it every
\* table, as the connection sees it and on disk, has the rows and values it had
\* before the call; a call without a connection and a call whose first
\* statement raises a database error fail.
C27_FailedInsertUnchanged ==
    /\ [][(ret'.fn \in InsertOps /\ ret'.val = None)
             => db' = db /\ committed' = committed]_vars
    /\ [](ret.fn \in InsertOps /\ (~connection \/ ret.err = "select") => ret.val = None)

\* the UPDATE of a stored position failed: the call returned None and the
\* position has the value it had
C27_Witness ==
    /\ ret.fn = "insert_position" /\ ret.err = "write" /\ ret.val = None
    /\ Len(db.positions) = 1 /\ db.positions[1].value = 1000
    /\ db.positions[1].filing_id = ret.args[1] /\ db.positions[1].security_id = ret.args[2]
    /\ db = committed

\* the accession number of the stored 13F filing fid, and the CUSIP of security sid
AccessionOf(d, fid) == d.filings[fid].accession_number
CusipOf(d, sid) == d.securities[sid].cusip

\* C28 - Stored sums never exceed the reported sums.  In every state reached by
\* runs of a downloader, runs in which an existence query failed included, the
\* value and the shares of every stored position are at most the sums of the
\* raw rows that the document of its filing reports for its CUSIP, and no
\* insider filing has more insider_transactions rows than its document has
\* transaction records.
C28_SumsNeverExceedReported ==
    driver = "downloader" =>
        /\ \A i \in 1..Len(committed.positions) :
               LET p == committed.positions[i]
                   rows == world.docs[AccessionOf(committed, p.filing_id)]
                   c == CusipOf(committed, p.security_id)
               IN  /\ p.value <= SumField(rows, c, "value")
                   /\ p.shares <= SumField(rows, c, "shares")
        /\ \A f \in 1..Len(committed.insider_filings) :
               Len(TransactionsOf(committed, f))
                   <= Len(world.docs[committed.insider_filings[f].accession_number].transactions)

\* during the run the filing of acc was stored and the filing-level insert for
\* it succeeded: the filing row is new, and in separate mode of the 13F
\* operation a position of it was stored
NewlyInserted(acc) ==
    IF run.kind = "13f"
    THEN /\ FilingOf(run.before, acc) = None /\ FilingOf(committed, acc) # None
         /\ ~run.use_aggregated => ChildRows(committed, acc).positions # << >>
    ELSE /\ FetchOne(run.before.insider_filings, [accession_number |-> acc]) = None
         /\ FetchOne(committed.insider_filings, [accession_number |-> acc]) # None

FeedOfRun ==
    SelectSeq(world.feed[run.cik],
              LAMBDA e : e.form = (IF run.kind = "13f" THEN "13F-HR" ELSE "4"))
FirstAccessions(n) ==
    {FeedOfRun[k].accessionNumber : k \in 1..(IF n < Len(FeedOfRun) THEN n ELSE Len(FeedOfRun))}

\* the accession numbers of the filing rows of store d
StoredIn(d) ==
    {d.filings[i].accession_number : i \in 1..Len(d.filings)}
    \cup {d.insider_filings[i].accession_number : i \in 1..Len(d.insider_filings)}

\* the list a run goes through, once it has one: the first N filings of the
\* feed for limit_filings = N > 0, the whole feed for None or 0
ExaminesFirstN ==
    (run.kind # "none" /\ run.filings # << >>) =>
        IF run.limit_filings # None /\ run.limit_filings > 0
        THEN /\ Len(run.filings) <= run.limit_filings
             /\ run.filings = SubSeq(FeedOfRun, 1, Len(run.filings))
             /\ {run.filings[k].accessionNumber : k \in 1..Len(run.filings)}
                    = FirstAccessions(run.limit_filings)
        ELSE run.filings = FeedOfRun

\* a run with limit_filings = N > 0 has stored at most N filings
IngestsAtMostN ==
    (run.kind # "none" /\ run.limit_filings # None) =>
        Cardinality(StoredIn(committed) \ StoredIn(run.before)) <= run.limit_filings

\* a step of a run with limit_filings = N > 0 stores no filing beyond the first
\* N of the feed, whatever is stored already
NeverBeyondN ==
    (run.kind # "none" /\ run.limit_filings # None) =>
        (StoredIn(committed') \ StoredIn(committed)) \subseteq FirstAccessions(run.limit_filings)

\* C30 - limit_filings is applied before the existence check.  With
\* limit_filings = N > 0 a run goes through the first N filings of the feed,
\* stored or not, so it ingests at most N filings and never a filing beyond
\* position N, in a first run and in every later one; with limit_filings None
\* or 0 it goes through every filing of the feed.
C30_LimitBeforeCheck == [](ExaminesFirstN /\ IngestsAtMostN) /\ [][NeverBeyondN]_vars

\* a second run with limit_filings = 1 has skipped the first filing, which is
\* stored, and returns without having looked at the second
C30_Witness ==
    /\ run.kind # "none" /\ run.stage = "return" /\ run.rerun
    /\ run.limit_filings = 1 /\ Len(FeedOfRun) = 2 /\ run.trace = <<"check">>
    /\ StoredIn(committed) = {Acc1}

====
